---- MODULE Spec2Model ----
(***************************************************************************)
(* Model of the kvpuppet track downloader.                                 *)
(*                                                                         *)
(* Spec       : downloadAllTracks of src/downloader.js (lines 670-794),    *)
(*              the retry/skip orchestrator, run by processSong, together  *)
(*              with the browser that delivers the downloads.              *)
(*                                                                         *)
(* LegacySpec : downloadAllTracks of src/unnamed/part_001 (lines 369-453), *)
(*              the earlier revision without existence test and prompt.    *)
(* GptSpec    : the download loop of main in src/downloader-gpt.js (lines  *)
(*              285-328) with waitForNewMp3 (lines 55-64).                 *)
(* AllSpec    : the orchestrators of downloader.js and downloader-gpt.js.  *)
(* DirGoneSpec: AllSpec in an environment that may delete the directory.   *)
(*                                                                         *)
(* ScrapeSpec : fetchPurchasedSongs of src/downloader.js (lines 436-530)   *)
(*              against a site that serves a bounded sequence of pages.    *)
(*                                                                         *)
(* NameSpec   : the computation of finalFileName in downloadAllTracks     *)
(*              (src/downloader.js lines 681-689), as a function of the    *)
(*              loop index and the caption text.                           *)
(*                                                                         *)
(* MixerSpec  : findMixerContext of src/downloader-gpt.js (lines 92-162)   *)
(*              on a page whose mixer root may live in the top-level       *)
(*              document or in a nested frame and may be mounted late.     *)
(*                                                                         *)
(* SessionSpec: main of src/downloader.js (lines 533-661) with loadConfig, *)
(*              saveConfig and the steps of processSong; the catalog      *)
(*              scrape and the download loop are single steps here.       *)
(*              SessionFairSpec adds weak fairness of main's steps.        *)
(*                                                                         *)
(* Time is counted in ticks of one poll interval (500 ms).  The browser is *)
(* a separate process: its steps interleave with every step of the script. *)
(* A download appears in the directory as <name>.crdownload and is renamed *)
(* to <name>.mp3 when the transfer ends; the browser gives every download  *)
(* a name of its own (it never overwrites a file).                         *)
(***************************************************************************)
EXTENDS Integers, Sequences, FiniteSets, TLC

\* ---------------------------------------------------------------- bounds
MaxTracks == 2          \* number of tracks of the mix (tracks.length)
MaxRetries == 1         \* cap on the number of Retry answers in one run
TimeoutTicks == 2       \* DOWNLOAD_TIMEOUT_MS, scaled, in poll intervals
MaxPages == 2           \* number of catalog pages the site serves
MaxNameLen == 3         \* length of a track caption, in characters
MaxFrames == 2          \* number of nested rendering contexts of the page
FindTimeoutTicks == 2   \* timeoutMs of findMixerContext, in poll rounds
MaxMenuRounds == 2      \* menu selections other than Exit in one session

\* ------------------------------------------------------ program constants
PollTicks == 1          \* setTimeout(resolve, 500): one poll interval
GraceTicks == 2         \* setTimeout(resolve, 1000) after a candidate is found

Tracks == 0 .. (MaxTracks - 1)
MaxDownloads == MaxTracks + MaxRetries
DownloadIds == 1 .. MaxDownloads

\* ------------------------------------------------------------ file names
\* finalFileName of track t: `${trackNumber} - ${safeTrackName}.mp3`
Canon(t) == [k |-> "canon", n |-> t]
\* the file of download d while the transfer is in progress (*.crdownload)
Part(d) == [k |-> "part", n |-> d]
\* the file of download d once the transfer has ended (*.mp3)
Mp3(d) == [k |-> "mp3", n |-> d]
\* a partial file left in the directory by an earlier, interrupted run
StalePart == Part(0)
Names == {Canon(t) : t \in Tracks} \cup {Part(d) : d \in 0 .. MaxDownloads}
            \cup {Mp3(d) : d \in DownloadIds}
NoFile == [k |-> "none", n |-> 0]

\* file.endsWith('.crdownload')
EndsWithCrdownload(f) == f.k = "part"

VARIABLES
    pc,                 \* position of the script
    errorAt,            \* step that raised the error that ended the run
    i,                  \* loop index of downloadAllTracks
    downloadSuccessful, \* flag of the retry loop
    userSkipped,        \* flag of the retry loop
    progress,           \* progressBar value (tracks counted as done)
    soloButton,         \* TRUE when track.$('button.track__solo') found one
    filesBefore,        \* snapshot of the directory taken after the click
    newFilePath,        \* file found by the polling loop, or NoFile
    tempFile,           \* partial file picked by the timeout cleanup
    elapsed,            \* Date.now() - startTime, in ticks
    sawPartial,         \* history: a poll saw a new partial file and went on
    prevCount,          \* downloader-gpt.js: number of .mp3 files before the click
    hasSolo,            \* widget: which tracks have a solo control
    soloed,             \* widget: set of tracks that are soloed
    dirExists,          \* file system: the download directory exists
    dir,                \* file system: names present in the directory
    content,            \* file system: download held by each canonical file
    dl,                 \* browser: the downloads requested so far
    retriesLeft,        \* operator: Retry answers still allowed by the bound
    initDir,            \* history: the directory when the run started
    existedWhenReached, \* history: target file present at the first visit
    outcome,            \* history: final outcome of each track
    soloClicks,         \* history: solo activations per track (on and off)
    cycles,             \* history: isolate-trigger-await cycles per track
    retries,            \* history: Retry answers per track
    renames,            \* history: renames performed per track
    visits,             \* history: order in which indices were entered
    soloButtonClicks,   \* clicks made on the handle soloButton since it was found
    site,               \* catalog: the pages the site serves, in order
    shown,              \* catalog: index of the page the browser displays
    sPc,                \* position of fetchPurchasedSongs
    pageNumber,         \* fetchPurchasedSongs: pageNumber
    firstSongOnPageHref, \* key of the first entry of the page just scraped
    collectedSongs,     \* all entries scraped so far, duplicates included
    collectedSongUrls,  \* set of the keys scraped so far
    uniqueSongs,        \* the sequence returned by fetchPurchasedSongs
    scraped,            \* history: per scraped page, its index and new keys
    nextLookups,        \* history: page numbers at which 'next' was looked up
    stopReason,         \* history: why the paging loop ended
    nPc,                \* position of the file name computation
    caption,            \* text of the track's caption element
    fnIndex,            \* loop index i the name is computed for
    trackName,          \* trackName: the trimmed caption
    finalFileName,      \* finalFileName
    fPc,                \* position of findMixerContext
    rootHome,           \* page: the context that hosts the mixer root, if any
    rootMounted,        \* page: the root is in the document of its context
    mountedAt,          \* history: elapsed time when the root was mounted
    opener,             \* page: first opener candidate that matches, or 0
    mixerIframe,        \* page: the frame of the likely mixer iframe, or 0
    readable,           \* page: contexts whose content() can be read
    fElapsed,           \* Date.now() - start in findMixerContext, in ticks
    fResult,            \* value returned by findMixerContext
    fError,             \* error thrown by findMixerContext
    dumped,             \* contexts whose snapshot file has been written
    moreOpeners,        \* page: a later opener candidate matches as well
    throwing,           \* page: frames whose f.$ / waitForSelector throws
    firstProbe,         \* history: what the probe of line 104 found
    openerClicks,       \* history: el.click() calls on opener candidates
    frameScans,         \* history: passes over page.frames()
    scrolls,            \* history: window.scrollBy calls
    mPc,                \* position of main
    mErr,               \* origin of the error that ended main's loop
    configFile,         \* config.json on disk
    configWritable,     \* config.json can be written
    config,             \* value returned by loadConfig
    email,              \* answers.email
    password,           \* answers.password
    songUrl,            \* songUrl of the selection
    enableClickTrack,   \* answer of the 'Intro Click' prompt
    purchased,          \* purchasedSongs is not empty
    rounds,             \* menu selections made so far
    browserOpen,        \* the browser launched by main is open
    closes,             \* number of browser.close() calls
    pPc,                \* position of processSong
    pRet,               \* value returned by processSong
    fatalMixes,         \* history: mixes ended by the catch of processSong
    scraping,           \* calls of fetchPurchasedSongs that have not returned
    mixing,             \* calls of processSong that have not returned
    controlMissing,     \* processSong found no download control on the page
    loopRan,            \* processSong has called downloadAllTracks
    mixOutcome,         \* how downloadAllTracks left each track of the mix
    reported,           \* what main printed about the last mix
    snapshotFiles       \* snapshot files written by main and processSong

ctlVars == <<pc, errorAt>>
loopVars == <<i, downloadSuccessful, userSkipped, progress>>
attemptVars == <<soloButton, filesBefore, newFilePath, tempFile, elapsed,
                 sawPartial, prevCount>>
widgetVars == <<hasSolo, soloed>>
fsVars == <<dirExists, dir, content>>
histVars == <<initDir, existedWhenReached, outcome, soloClicks, cycles, retries,
              renames, visits>>
coreVars == <<ctlVars, loopVars, attemptVars, widgetVars, fsVars, dl,
             retriesLeft, histVars, soloButtonClicks>>
scrapeVars == <<site, shown, sPc, pageNumber, firstSongOnPageHref,
               collectedSongs, collectedSongUrls, uniqueSongs, scraped,
               nextLookups, stopReason>>
nameVars == <<nPc, caption, fnIndex, trackName, finalFileName>>
mixerPage == <<moreOpeners, throwing>>
mixerHist == <<firstProbe, openerClicks, frameScans, scrolls>>
mixerVars == <<fPc, rootHome, rootMounted, mountedAt, opener, mixerIframe,
              readable, fElapsed, fResult, fError, dumped, mixerPage,
              mixerHist>>
cfgVars == <<configFile, configWritable, config>>
credVars == <<email, password>>
menuVars == <<songUrl, enableClickTrack, purchased, rounds>>
browserVars == <<browserOpen, closes>>
procVars == <<pPc, pRet, fatalMixes>>
callVars == <<scraping, mixing>>
mixVars == <<controlMissing, loopRan, mixOutcome, reported>>
sessionVars == <<mPc, mErr, cfgVars, credVars, menuVars, browserVars, procVars,
                 callVars, mixVars, snapshotFiles>>
extVars == <<scrapeVars, nameVars, mixerVars, sessionVars>>
vars == <<coreVars, extVars>>

\* fetchPurchasedSongs is not running
ScrapeIdle ==
    /\ site = <<>>
    /\ shown = 0
    /\ sPc = "idle"
    /\ pageNumber = 0
    /\ firstSongOnPageHref = "null"
    /\ collectedSongs = <<>>
    /\ collectedSongUrls = {}
    /\ uniqueSongs = <<>>
    /\ scraped = <<>>
    /\ nextLookups = {}
    /\ stopReason = "none"

\* no file name is being computed
NameIdle ==
    /\ nPc = "idle"
    /\ caption = <<>>
    /\ fnIndex = 0
    /\ trackName = <<>>
    /\ finalFileName = <<>>

NoHandle == [handle |-> -1, type |-> "none"]

\* findMixerContext is not running
MixerIdle ==
    /\ fPc = "idle"
    /\ rootHome = -1
    /\ rootMounted = FALSE
    /\ mountedAt = -1
    /\ opener = 0
    /\ mixerIframe = 0
    /\ readable = {}
    /\ fElapsed = 0
    /\ fResult = NoHandle
    /\ fError = "none"
    /\ dumped = {}
    /\ moreOpeners = FALSE
    /\ throwing = {}
    /\ firstProbe = "none"
    /\ openerClicks = 0
    /\ frameScans = 0
    /\ scrolls = 0

\* a value whose properties are all undefined, as {} is
EmptyConfig ==
    [kind |-> "record", email |-> "undef", password |-> "undef",
     click |-> "undef"]

\* main is not running
SessionIdle ==
    /\ mPc = "idle"
    /\ mErr = "none"
    /\ configFile = [EmptyConfig EXCEPT !.kind = "missing"]
    /\ configWritable = TRUE
    /\ config = EmptyConfig
    /\ email = ""
    /\ password = ""
    /\ songUrl = ""
    /\ enableClickTrack = FALSE
    /\ purchased = FALSE
    /\ rounds = 0
    /\ browserOpen = FALSE
    /\ closes = 0
    /\ pPc = "idle"
    /\ pRet = "none"
    /\ fatalMixes = 0
    /\ scraping = 0
    /\ mixing = 0
    /\ controlMissing = FALSE
    /\ loopRan = FALSE
    /\ mixOutcome = [t \in Tracks |-> "none"]
    /\ reported = "none"
    /\ snapshotFiles = {}

\* the parts of the program other than the download loop are at rest
ExtIdle ==
    /\ ScrapeIdle
    /\ NameIdle
    /\ MixerIdle
    /\ SessionIdle

\* ------------------------------------------------------------------ Init
\* The state when processSong has opened the song page: the directory may
\* hold canonical files and a stale partial file of an earlier run; no track
\* is soloed on a freshly loaded mixer.
InitCommon ==
    /\ errorAt = "none"
    /\ i = 0
    /\ downloadSuccessful = FALSE
    /\ userSkipped = FALSE
    /\ progress = 0
    /\ soloButton = FALSE
    /\ filesBefore = {}
    /\ newFilePath = NoFile
    /\ tempFile = NoFile
    /\ elapsed = 0
    /\ sawPartial = FALSE
    /\ prevCount = 0
    /\ hasSolo \in [Tracks -> BOOLEAN]
    /\ soloed = {}
    /\ dirExists \in BOOLEAN
    /\ dir \in SUBSET ({Canon(t) : t \in Tracks} \cup {StalePart})
    /\ (~dirExists => dir = {})
    /\ content = [t \in Tracks |-> IF Canon(t) \in dir THEN 0 ELSE -1]
    /\ dl = <<>>
    /\ retriesLeft = MaxRetries
    /\ initDir = dir
    /\ existedWhenReached = [t \in Tracks |-> "unvisited"]
    /\ outcome = [t \in Tracks |-> "none"]
    /\ soloClicks = [t \in Tracks |-> 0]
    /\ cycles = [t \in Tracks |-> 0]
    /\ retries = [t \in Tracks |-> 0]
    /\ renames = [t \in Tracks |-> 0]
    /\ visits = <<>>
    /\ soloButtonClicks = 0

Init ==
    /\ pc = "mkdir"
    /\ InitCommon
    /\ ExtIdle

\* -------------------------------------------------------------- helpers
\* mutant of NewFiles: the in-progress suffix is not tested
NewFiles_NoSuffixTest(current, before) ==
    {f \in current : f \notin before}

\* currentFiles.find(file => !filesBefore.has(file) && !file.endsWith('.crdownload'))
\* candidates; find() returns the first in directory order, which is arbitrary
NewFiles(current, before) ==
    {f \in current : f \notin before /\ ~EndsWithCrdownload(f)}

\* currentFiles.find(file => !filesBefore.has(file) && file.endsWith('.crdownload'))
TempFiles(current, before) ==
    {f \in current : f \notin before /\ EndsWithCrdownload(f)}

\* mutant of FinalFileExists: the existence test always answers no
FinalFileExists_Never(t) == FALSE

\* fs.existsSync(finalFilePath)
FinalFileExists(t) == dirExists /\ Canon(t) \in dir

\* mutant of DeadlineNotReached: the loop test never ends the loop
DeadlineNotReached_Always(e) == TRUE

\* Date.now() - startTime < DOWNLOAD_TIMEOUT_MS
DeadlineNotReached(e) == e < TimeoutTicks

\* fs.readdirSync(downloadPath) throws ENOENT when the directory is missing
ReaddirThrows == ~dirExists

\* mutant of ToggleSolo: a click never clears the solo state
ToggleSolo_OnlySets(S, t) == S \cup {t}

\* soloButton.click(): the widget toggles the solo state of that track
ToggleSolo(S, t) == IF t \in S THEN S \ {t} ELSE S \cup {t}

\* an error thrown inside downloadAllTracks leaves the function at once
Throw(step) ==
    /\ pc' = "error"
    /\ errorAt' = step

\* the variables declared in the body of the while loop go out of scope
EndOfPass ==
    /\ soloButton' = FALSE
    /\ filesBefore' = {}
    /\ newFilePath' = NoFile
    /\ tempFile' = NoFile
    /\ elapsed' = 0
    /\ sawPartial' = FALSE
    /\ prevCount' = 0
    /\ soloButtonClicks' = 0

\* mutant of LoopBack: the index is left after every pass, Retry or not
LoopBack_AlwaysAdvance(success, skipped) ==
    /\ progress' = progress + 1
    /\ i' = i + 1
    /\ downloadSuccessful' = FALSE
    /\ userSkipped' = FALSE
    /\ pc' = IF i + 1 < MaxTracks THEN "resolve" ELSE "done"

\* mutant of LoopBack: only a success ends the while loop of an index
LoopBack_IgnoreSkip(success, skipped) ==
    IF success
    THEN /\ progress' = progress + 1
         /\ i' = i + 1
         /\ downloadSuccessful' = FALSE
         /\ userSkipped' = FALSE
         /\ pc' = IF i + 1 < MaxTracks THEN "resolve" ELSE "done"
    ELSE /\ UNCHANGED <<progress, i>>
         /\ downloadSuccessful' = success
         /\ userSkipped' = skipped
         /\ pc' = "resolve"

\* end of one pass of the while loop (line 678): leave the index when the
\* download succeeded or the operator skipped, else run the loop again
LoopBack(success, skipped) ==
    IF success \/ skipped
    THEN /\ progress' = progress + 1
         /\ i' = i + 1
         /\ downloadSuccessful' = FALSE
         /\ userSkipped' = FALSE
         /\ pc' = IF i + 1 < MaxTracks THEN "resolve" ELSE "done"
    ELSE /\ UNCHANGED <<progress, i>>
         /\ downloadSuccessful' = success
         /\ userSkipped' = skipped
         /\ pc' = "resolve"

\* mutant of FirstStepOfAttempt: the attempt starts with the download control
FirstStepOfAttempt_Trigger == "trigger"

\* lines 699-717: an attempt starts with the solo control (and the pause of
\* line 712), the download control comes after it
FirstStepOfAttempt == "solo"

\* mutant of UnsoloNeeded: the control is never clicked a second time
UnsoloNeeded_Never(button) == FALSE

\* line 783: if (soloButton), the handle found at line 700 of the same pass
UnsoloNeeded(button) == button

\* download activations made for track t
DlClicks(t) == Cardinality({d \in 1 .. Len(dl) : dl[d].idx = t})

\* ------------------------------------------------- processSong: directory
\* if (!fs.existsSync(downloadPath)) fs.mkdirSync(downloadPath, {recursive})
MkDir ==
    /\ pc = "mkdir"
    /\ dirExists' = TRUE
    /\ pc' = "resolve"
    /\ UNCHANGED <<errorAt, loopVars, attemptVars, widgetVars, dir, content, dl,
                   retriesLeft, histVars>>
    /\ UNCHANGED soloButtonClicks
    /\ UNCHANGED extVars

\* ------------------------------------------------------ downloadAllTracks
\* lines 680-697: re-query the track, compute finalFileName, skip when the
\* file exists
Resolve ==
    /\ pc = "resolve"
    /\ existedWhenReached' =
         IF existedWhenReached[i] = "unvisited"
         THEN [existedWhenReached EXCEPT ![i] =
                  IF Canon(i) \in dir THEN "yes" ELSE "no"]
         ELSE existedWhenReached
    /\ visits' = IF visits = <<>> \/ visits[Len(visits)] # i
                 THEN Append(visits, i) ELSE visits
    /\ IF FinalFileExists(i)
       THEN /\ outcome' = [outcome EXCEPT ![i] = "existing"]
            /\ LoopBack(TRUE, userSkipped)
       ELSE /\ pc' = FirstStepOfAttempt
            /\ UNCHANGED <<outcome, loopVars>>
    /\ UNCHANGED <<errorAt, attemptVars, widgetVars, fsVars, dl, retriesLeft,
                   initDir, soloClicks, cycles, retries, renames>>
    /\ UNCHANGED soloButtonClicks
    /\ UNCHANGED extVars

\* lines 699-712: activate the solo control when the track has one
Solo ==
    /\ pc = "solo"
    /\ soloButton' = hasSolo[i]
    /\ IF hasSolo[i]
       THEN /\ soloed' = ToggleSolo(soloed, i)
            /\ soloClicks' = [soloClicks EXCEPT ![i] = @ + 1]
       ELSE UNCHANGED <<soloed, soloClicks>>
    /\ cycles' = [cycles EXCEPT ![i] = @ + 1]
    /\ pc' = "trigger"
    /\ UNCHANGED <<errorAt, loopVars, filesBefore, newFilePath, tempFile,
                   elapsed, sawPartial, prevCount, hasSolo, fsVars, dl, retriesLeft, initDir,
                   existedWhenReached, outcome, retries, renames, visits>>
    /\ soloButtonClicks' = IF hasSolo[i] THEN 1 ELSE 0
    /\ UNCHANGED extVars

\* lines 714-717: wait for 'a.download' and click it; waitForSelector throws
\* when the control does not show up within its timeout
Trigger ==
    /\ pc = "trigger"
    /\ \/ /\ dl' = Append(dl, [idx |-> i, solo |-> soloed, st |-> "requested"])
          /\ pc' = "snapshot"
          /\ UNCHANGED errorAt
       \/ /\ Throw("trigger")
          /\ UNCHANGED dl
    /\ UNCHANGED <<loopVars, attemptVars, widgetVars, fsVars, retriesLeft,
                   histVars>>
    /\ UNCHANGED soloButtonClicks
    /\ UNCHANGED extVars

\* lines 720-722: filesBefore, startTime, newFilePath = null
Snapshot ==
    /\ pc = "snapshot"
    /\ IF ~ReaddirThrows
       THEN /\ filesBefore' = dir
            /\ elapsed' = 0
            /\ newFilePath' = NoFile
            /\ pc' = "poll"
            /\ UNCHANGED errorAt
       ELSE /\ Throw("snapshot")
            /\ UNCHANGED <<filesBefore, elapsed, newFilePath>>
    /\ UNCHANGED <<loopVars, soloButton, tempFile, sawPartial, prevCount,
                   widgetVars, fsVars, dl, retriesLeft, histVars>>
    /\ UNCHANGED soloButtonClicks
    /\ UNCHANGED extVars

\* mutant of Sleep: the clock stands still during the pause
Sleep_NoTime(now, ticks) == now

\* lines 729 and 733: await new Promise(resolve => setTimeout(resolve, ms))
Sleep(now, ticks) == now + ticks

\* lines 725-734: one pass of the polling loop, or its exit at the deadline
Poll ==
    /\ pc = "poll"
    /\ IF DeadlineNotReached(elapsed)
       THEN IF ReaddirThrows
            THEN /\ Throw("poll")
                 /\ UNCHANGED <<newFilePath, elapsed, sawPartial>>
            ELSE IF NewFiles(dir, filesBefore) # {}
                 THEN /\ \E f \in NewFiles(dir, filesBefore) : newFilePath' = f
                      /\ elapsed' = Sleep(elapsed, GraceTicks)
                      /\ pc' = "rename"
                      /\ UNCHANGED <<errorAt, sawPartial>>
                 ELSE /\ elapsed' = Sleep(elapsed, PollTicks)
                      /\ sawPartial' = (sawPartial \/ TempFiles(dir, filesBefore) # {})
                      /\ UNCHANGED <<newFilePath, pc, errorAt>>
       ELSE /\ pc' = "cleanupList"
            /\ UNCHANGED <<newFilePath, elapsed, sawPartial, errorAt>>
    /\ UNCHANGED <<loopVars, soloButton, filesBefore, tempFile, prevCount,
                   widgetVars, fsVars, dl, retriesLeft, histVars>>
    /\ UNCHANGED soloButtonClicks
    /\ UNCHANGED extVars

\* mutant of RenameSync: the file is copied, the old name stays
RenameSync_Copy(files, from, to) == files \cup {to}

\* line 739: fs.renameSync(from, to): the entry moves to its new name
RenameSync(files, from, to) == (files \ {from}) \cup {to}

\* lines 736-740: fs.renameSync(newFilePath, finalFilePath)
Rename ==
    /\ pc = "rename"
    /\ IF dirExists /\ newFilePath \in dir
       THEN /\ dir' = RenameSync(dir, newFilePath, Canon(i))
            /\ content' = [content EXCEPT ![i] = newFilePath.n]
            /\ downloadSuccessful' = TRUE
            /\ renames' = [renames EXCEPT ![i] = @ + 1]
            /\ outcome' = [outcome EXCEPT ![i] = "completed"]
            /\ pc' = "modal"
            /\ UNCHANGED errorAt
       ELSE /\ Throw("rename")
            /\ UNCHANGED <<dir, content, downloadSuccessful, renames, outcome>>
    /\ UNCHANGED <<i, userSkipped, progress, attemptVars, widgetVars, dirExists,
                   dl, retriesLeft, initDir, existedWhenReached, soloClicks,
                   cycles, retries, visits>>
    /\ UNCHANGED soloButtonClicks
    /\ UNCHANGED extVars

\* lines 746-748: look for a partial file that the attempt left behind
CleanupList ==
    /\ pc = "cleanupList"
    /\ IF ReaddirThrows
       THEN /\ Throw("cleanup")
            /\ UNCHANGED tempFile
       ELSE /\ IF TempFiles(dir, filesBefore) # {}
               THEN /\ \E f \in TempFiles(dir, filesBefore) : tempFile' = f
                    /\ pc' = "cleanupUnlink"
               ELSE /\ tempFile' = NoFile
                    /\ pc' = "prompt"
            /\ UNCHANGED errorAt
    /\ UNCHANGED <<loopVars, soloButton, filesBefore, newFilePath, elapsed,
                   sawPartial, prevCount, widgetVars, fsVars, dl, retriesLeft,
                   histVars>>
    /\ UNCHANGED soloButtonClicks
    /\ UNCHANGED extVars

\* lines 749-752: fs.unlinkSync(tempFile) (throws when the file is gone)
CleanupUnlink ==
    /\ pc = "cleanupUnlink"
    /\ IF dirExists /\ tempFile \in dir
       THEN /\ dir' = dir \ {tempFile}
            /\ pc' = "prompt"
            /\ UNCHANGED errorAt
       ELSE /\ Throw("cleanup")
            /\ UNCHANGED dir
    /\ UNCHANGED <<loopVars, attemptVars, widgetVars, dirExists, content, dl,
                   retriesLeft, histVars>>
    /\ UNCHANGED soloButtonClicks
    /\ UNCHANGED extVars

\* lines 754-770: the operator answers Retry or Skip
Prompt ==
    /\ pc = "prompt"
    /\ \/ /\ userSkipped' = TRUE
          /\ outcome' = [outcome EXCEPT ![i] = "skipped"]
          /\ UNCHANGED <<retries, retriesLeft>>
       \/ /\ retriesLeft > 0
          /\ retries' = [retries EXCEPT ![i] = @ + 1]
          /\ retriesLeft' = retriesLeft - 1
          /\ UNCHANGED <<userSkipped, outcome>>
    /\ pc' = "modal"
    /\ UNCHANGED <<errorAt, i, downloadSuccessful, progress, attemptVars,
                   widgetVars, fsVars, dl, initDir, existedWhenReached,
                   soloClicks, cycles, renames, visits>>
    /\ UNCHANGED soloButtonClicks
    /\ UNCHANGED extVars

\* lines 772-780: dismiss the confirmation overlay; a missing overlay is
\* caught and ignored
Modal ==
    /\ pc = "modal"
    /\ pc' = "unsolo"
    /\ UNCHANGED <<errorAt, loopVars, attemptVars, widgetVars, fsVars, dl,
                   retriesLeft, histVars>>
    /\ UNCHANGED soloButtonClicks
    /\ UNCHANGED extVars

\* lines 782-792: un-solo with the control found before the attempt, then
\* the loop test and progressBar.increment()
Unsolo ==
    /\ pc = "unsolo"
    /\ IF UnsoloNeeded(soloButton)
       THEN /\ soloed' = ToggleSolo(soloed, i)
            /\ soloClicks' = [soloClicks EXCEPT ![i] = @ + 1]
       ELSE UNCHANGED <<soloed, soloClicks>>
    /\ LoopBack(downloadSuccessful, userSkipped)
    /\ EndOfPass
    /\ UNCHANGED <<errorAt, hasSolo, fsVars, dl, retriesLeft, initDir,
                   existedWhenReached, outcome, cycles, retries, renames,
                   visits>>
    /\ UNCHANGED extVars

\* ---------------------------------------------------------------- browser
\* the transfer of download d starts: <name>.crdownload appears
BrowserStart(d) ==
    /\ pc \notin {"done", "error"}
    /\ d \in 1 .. Len(dl)
    /\ dl[d].st = "requested"
    /\ dirExists
    /\ dl' = [dl EXCEPT ![d].st = "partial"]
    /\ dir' = dir \cup {Part(d)}
    /\ UNCHANGED <<ctlVars, loopVars, attemptVars, widgetVars, dirExists,
                   content, retriesLeft, histVars>>
    /\ UNCHANGED soloButtonClicks
    /\ UNCHANGED extVars

\* the transfer of download d ends: <name>.crdownload is renamed to <name>.mp3
BrowserFinish(d) ==
    /\ pc \notin {"done", "error"}
    /\ d \in 1 .. Len(dl)
    /\ dl[d].st = "partial"
    /\ dirExists
    /\ Part(d) \in dir
    /\ dl' = [dl EXCEPT ![d].st = "complete"]
    /\ dir' = (dir \ {Part(d)}) \cup {Mp3(d)}
    /\ UNCHANGED <<ctlVars, loopVars, attemptVars, widgetVars, dirExists,
                   content, retriesLeft, histVars>>
    /\ UNCHANGED soloButtonClicks
    /\ UNCHANGED extVars

Script ==
    \/ MkDir
    \/ Resolve
    \/ Solo
    \/ Trigger
    \/ Snapshot
    \/ Poll
    \/ Rename
    \/ CleanupList
    \/ CleanupUnlink
    \/ Prompt
    \/ Modal
    \/ Unsolo

Browser ==
    \/ \E d \in DownloadIds : BrowserStart(d)
    \/ \E d \in DownloadIds : BrowserFinish(d)

Next ==
    \/ Script
    \/ Browser

Spec == Init /\ [][Next]_vars

\* downloadAllTracks is an async function on the event loop of Node and the
\* operator answers every prompt: a step of the script that can be taken is
\* taken; nothing is assumed about the browser
FairSpec == Spec /\ WF_vars(Script)

\* =================================== src/unnamed/part_001: downloadAllTracks
\* processSong of part_001 (lines 78-80) has created the directory
LegacyInit ==
    /\ pc = "L_solo"
    /\ InitCommon
    /\ ExtIdle
    /\ dirExists

\* lines 370-391: re-query the track and activate its solo control
L_Solo ==
    /\ pc = "L_solo"
    /\ visits' = Append(visits, i)
    /\ existedWhenReached' = [existedWhenReached EXCEPT ![i] =
                                 IF Canon(i) \in dir THEN "yes" ELSE "no"]
    /\ soloButton' = hasSolo[i]
    /\ IF hasSolo[i]
       THEN /\ soloed' = ToggleSolo(soloed, i)
            /\ soloClicks' = [soloClicks EXCEPT ![i] = @ + 1]
       ELSE UNCHANGED <<soloed, soloClicks>>
    /\ cycles' = [cycles EXCEPT ![i] = @ + 1]
    /\ pc' = "L_trigger"
    /\ UNCHANGED <<errorAt, loopVars, filesBefore, newFilePath, tempFile,
                   elapsed, sawPartial, prevCount, hasSolo, fsVars, dl,
                   retriesLeft, initDir, outcome, retries, renames>>
    /\ soloButtonClicks' = IF hasSolo[i] THEN 1 ELSE 0
    /\ UNCHANGED extVars

\* lines 393-398: wait for 'a.download' and click it
L_Trigger ==
    /\ pc = "L_trigger"
    /\ \/ /\ dl' = Append(dl, [idx |-> i, solo |-> soloed, st |-> "requested"])
          /\ pc' = "L_snapshot"
          /\ UNCHANGED errorAt
       \/ /\ Throw("trigger")
          /\ UNCHANGED dl
    /\ UNCHANGED <<loopVars, attemptVars, widgetVars, fsVars, retriesLeft,
                   histVars>>
    /\ UNCHANGED soloButtonClicks
    /\ UNCHANGED extVars

\* lines 400-403: filesBefore, startTime, newFilePath = null
L_Snapshot ==
    /\ pc = "L_snapshot"
    /\ IF ~ReaddirThrows
       THEN /\ filesBefore' = dir
            /\ elapsed' = 0
            /\ newFilePath' = NoFile
            /\ pc' = "L_poll"
            /\ UNCHANGED errorAt
       ELSE /\ Throw("snapshot")
            /\ UNCHANGED <<filesBefore, elapsed, newFilePath>>
    /\ UNCHANGED <<loopVars, soloButton, tempFile, sawPartial, prevCount,
                   widgetVars, fsVars, dl, retriesLeft, histVars>>
    /\ UNCHANGED soloButtonClicks
    /\ UNCHANGED extVars

\* lines 405-415: the polling loop (45 s in this revision; the model uses
\* the same scaled deadline)
L_Poll ==
    /\ pc = "L_poll"
    /\ IF DeadlineNotReached(elapsed)
       THEN IF ReaddirThrows
            THEN /\ Throw("poll")
                 /\ UNCHANGED <<newFilePath, elapsed, sawPartial>>
            ELSE IF NewFiles(dir, filesBefore) # {}
                 THEN /\ \E f \in NewFiles(dir, filesBefore) : newFilePath' = f
                      /\ elapsed' = elapsed + GraceTicks
                      /\ pc' = "L_rename"
                      /\ UNCHANGED <<errorAt, sawPartial>>
                 ELSE /\ elapsed' = elapsed + PollTicks
                      /\ sawPartial' = (sawPartial \/ TempFiles(dir, filesBefore) # {})
                      /\ UNCHANGED <<newFilePath, pc, errorAt>>
       ELSE /\ pc' = "L_rename"
            /\ UNCHANGED <<newFilePath, elapsed, sawPartial, errorAt>>
    /\ UNCHANGED <<loopVars, soloButton, filesBefore, tempFile, prevCount,
                   widgetVars, fsVars, dl, retriesLeft, histVars>>
    /\ UNCHANGED soloButtonClicks
    /\ UNCHANGED extVars

\* lines 417-431: rename the new file to finalFileName (renameSync replaces
\* a file of that name), or warn when the loop timed out
L_Rename ==
    /\ pc = "L_rename"
    /\ IF newFilePath # NoFile
       THEN IF dirExists /\ newFilePath \in dir
            THEN /\ dir' = (dir \ {newFilePath}) \cup {Canon(i)}
                 /\ content' = [content EXCEPT ![i] = newFilePath.n]
                 /\ renames' = [renames EXCEPT ![i] = @ + 1]
                 /\ outcome' = [outcome EXCEPT ![i] = "completed"]
                 /\ pc' = "L_unsolo"
                 /\ UNCHANGED errorAt
            ELSE /\ Throw("rename")
                 /\ UNCHANGED <<dir, content, renames, outcome>>
       ELSE /\ outcome' = [outcome EXCEPT ![i] = "timedout"]
            /\ pc' = "L_unsolo"
            /\ UNCHANGED <<dir, content, renames, errorAt>>
    /\ UNCHANGED <<loopVars, attemptVars, widgetVars, dirExists, dl,
                   retriesLeft, initDir, existedWhenReached, soloClicks, cycles,
                   retries, visits>>
    /\ UNCHANGED soloButtonClicks
    /\ UNCHANGED extVars

\* lines 433-452: dismiss the overlay, un-solo, progressBar.increment()
L_Unsolo ==
    /\ pc = "L_unsolo"
    /\ IF soloButton
       THEN /\ soloed' = ToggleSolo(soloed, i)
            /\ soloClicks' = [soloClicks EXCEPT ![i] = @ + 1]
       ELSE UNCHANGED <<soloed, soloClicks>>
    /\ progress' = progress + 1
    /\ i' = i + 1
    /\ pc' = IF i + 1 < MaxTracks THEN "L_solo" ELSE "done"
    /\ EndOfPass
    /\ UNCHANGED <<errorAt, downloadSuccessful, userSkipped, hasSolo, fsVars, dl,
                   retriesLeft, initDir, existedWhenReached, outcome, cycles,
                   retries, renames, visits>>
    /\ UNCHANGED extVars

LegacyNext ==
    \/ L_Solo
    \/ L_Trigger
    \/ L_Snapshot
    \/ L_Poll
    \/ L_Rename
    \/ L_Unsolo
    \/ Browser

LegacySpec == LegacyInit /\ [][LegacyNext]_vars

\* ===================================== src/downloader-gpt.js: download loop
\* number of directory entries whose lower-cased name ends with '.mp3'
Mp3Count(files) == Cardinality({f \in files : f.k \in {"mp3", "canon"}})

\* allowDownloads (lines 34-42) has created the directory
GptInit ==
    /\ pc = "G_solo"
    /\ InitCommon
    /\ ExtIdle
    /\ dirExists

\* lines 285-304: re-query the track and activate its solo control
G_Solo ==
    /\ pc = "G_solo"
    /\ visits' = Append(visits, i)
    /\ existedWhenReached' = [existedWhenReached EXCEPT ![i] =
                                 IF Canon(i) \in dir THEN "yes" ELSE "no"]
    /\ soloButton' = hasSolo[i]
    /\ IF hasSolo[i]
       THEN /\ soloed' = ToggleSolo(soloed, i)
            /\ soloClicks' = [soloClicks EXCEPT ![i] = @ + 1]
       ELSE UNCHANGED <<soloed, soloClicks>>
    /\ cycles' = [cycles EXCEPT ![i] = @ + 1]
    /\ pc' = "G_count"
    /\ UNCHANGED <<errorAt, loopVars, filesBefore, newFilePath, tempFile,
                   elapsed, sawPartial, prevCount, hasSolo, fsVars, dl,
                   retriesLeft, initDir, outcome, retries, renames>>
    /\ soloButtonClicks' = IF hasSolo[i] THEN 1 ELSE 0
    /\ UNCHANGED extVars

\* line 307: prevCount = number of .mp3 files before the click
G_Count ==
    /\ pc = "G_count"
    /\ IF ~ReaddirThrows
       THEN /\ prevCount' = Mp3Count(dir)
            /\ pc' = "G_click"
            /\ UNCHANGED errorAt
       ELSE /\ Throw("snapshot")
            /\ UNCHANGED prevCount
    /\ UNCHANGED <<loopVars, soloButton, filesBefore, newFilePath, tempFile,
                   elapsed, sawPartial, widgetVars, fsVars, dl, retriesLeft,
                   histVars>>
    /\ UNCHANGED soloButtonClicks
    /\ UNCHANGED extVars

\* lines 309-319: clickDownloadOnMainPage (an error when no candidate control
\* is found), the overlay, then waitForNewMp3 starts its clock
G_Click ==
    /\ pc = "G_click"
    /\ \/ /\ dl' = Append(dl, [idx |-> i, solo |-> soloed, st |-> "requested"])
          /\ elapsed' = 0
          /\ pc' = "G_wait"
          /\ UNCHANGED errorAt
       \/ /\ Throw("trigger")
          /\ UNCHANGED <<dl, elapsed>>
    /\ UNCHANGED <<loopVars, soloButton, filesBefore, newFilePath, tempFile,
                   sawPartial, prevCount, widgetVars, fsVars, retriesLeft,
                   histVars>>
    /\ UNCHANGED soloButtonClicks
    /\ UNCHANGED extVars

\* waitForNewMp3, lines 55-64: one pass of the loop, or its exit
G_Wait ==
    /\ pc = "G_wait"
    /\ IF DeadlineNotReached(elapsed)
       THEN IF ReaddirThrows
            THEN /\ Throw("poll")
                 /\ UNCHANGED <<elapsed, outcome>>
            ELSE IF Mp3Count(dir) > prevCount
                 THEN /\ outcome' = [outcome EXCEPT ![i] = "completed"]
                      /\ pc' = "G_unsolo"
                      /\ UNCHANGED <<elapsed, errorAt>>
                 ELSE /\ elapsed' = elapsed + PollTicks
                      /\ UNCHANGED <<pc, errorAt, outcome>>
       ELSE /\ outcome' = [outcome EXCEPT ![i] = "timedout"]
            /\ pc' = "G_unsolo"
            /\ UNCHANGED <<elapsed, errorAt>>
    /\ UNCHANGED <<loopVars, soloButton, filesBefore, newFilePath, tempFile,
                   sawPartial, prevCount, widgetVars, fsVars, dl, retriesLeft,
                   initDir, existedWhenReached, soloClicks, cycles, retries,
                   renames, visits>>
    /\ UNCHANGED soloButtonClicks
    /\ UNCHANGED extVars

\* lines 321-328: warn on a timeout, un-solo, next index
G_Unsolo ==
    /\ pc = "G_unsolo"
    /\ IF soloButton
       THEN /\ soloed' = ToggleSolo(soloed, i)
            /\ soloClicks' = [soloClicks EXCEPT ![i] = @ + 1]
       ELSE UNCHANGED <<soloed, soloClicks>>
    /\ progress' = progress + 1
    /\ i' = i + 1
    /\ pc' = IF i + 1 < MaxTracks THEN "G_solo" ELSE "done"
    /\ EndOfPass
    /\ UNCHANGED <<errorAt, downloadSuccessful, userSkipped, hasSolo, fsVars, dl,
                   retriesLeft, initDir, existedWhenReached, outcome, cycles,
                   retries, renames, visits>>
    /\ UNCHANGED extVars

GptScript ==
    \/ G_Solo
    \/ G_Count
    \/ G_Click
    \/ G_Wait
    \/ G_Unsolo

GptNext ==
    \/ GptScript
    \/ Browser

GptSpec == GptInit /\ [][GptNext]_vars

\* ============================== both orchestrators, and a hostile directory
AllInit == Init \/ GptInit

AllNext ==
    \/ Script
    \/ GptScript
    \/ Browser

AllSpec == AllInit /\ [][AllNext]_vars

\* something outside the program deletes the download directory
RemoveDir ==
    /\ pc \notin {"mkdir", "done", "error"}
    /\ dirExists
    /\ dirExists' = FALSE
    /\ dir' = {}
    /\ content' = [t \in Tracks |-> -1]
    /\ UNCHANGED <<ctlVars, loopVars, attemptVars, widgetVars, dl, retriesLeft,
                   histVars>>
    /\ UNCHANGED soloButtonClicks
    /\ UNCHANGED extVars

DirGoneNext ==
    \/ AllNext
    \/ RemoveDir

DirGoneSpec == AllInit /\ [][DirGoneNext]_vars

\* no download loop is running
CoreIdle ==
    /\ pc = "idle"
    /\ InitCommon
    /\ hasSolo = [t \in Tracks |-> TRUE]
    /\ ~dirExists

\* ============================== src/downloader.js: fetchPurchasedSongs
Keys == {"A", "B", "C", "D"}

\* anchor.textContent.trim() of the entry with a given href
NameOf(k) ==
    CASE k = "A" -> "delta"
      [] k = "B" -> "Alpha"
      [] k = "C" -> "alpha"
      [] k = "D" -> "delta"

\* line 462: { name, value: anchor.href, key: anchor.href }
Song(k) == [name |-> NameOf(k), value |-> k, key |-> k]

\* the text the anchor of an entry carries after the site has retitled it
AltNameOf(k) ==
    CASE k = "A" -> "Alpha"
      [] k = "B" -> "delta"
      [] k = "C" -> "delta"
      [] k = "D" -> "alpha"

\* lines 456-464 on a page that shows the entries with their new titles
RetitledSong(k) == [name |-> AltNameOf(k), value |-> k, key |-> k]

\* collation of the names in use: base letters first, then lower case
\* before upper case
CollationKey(name) ==
    CASE name = "alpha" -> <<1, 0>>
      [] name = "Alpha" -> <<1, 1>>
      [] name = "delta" -> <<4, 0>>

\* String.prototype.localeCompare: negative, zero or positive
LocaleCompare(a, b) ==
    LET ka == CollationKey(a)
        kb == CollationKey(b)
    IN  IF ka[1] # kb[1] THEN ka[1] - kb[1] ELSE ka[2] - kb[2]

RECURSIVE InsertSorted(_, _)
InsertSorted(sorted, x) ==
    IF sorted = <<>> THEN <<x>>
    ELSE IF LocaleCompare(Head(sorted).name, x.name) <= 0
         THEN <<Head(sorted)>> \o InsertSorted(Tail(sorted), x)
         ELSE <<x>> \o sorted

\* mutant of SortByName: the entries are returned in scraping order
SortByName_Unsorted(songs) == songs

\* line 526: uniqueSongs.sort((a, b) => a.name.localeCompare(b.name))
RECURSIVE SortByName(_)
SortByName(songs) ==
    IF songs = <<>> THEN <<>>
    ELSE InsertSorted(SortByName(SubSeq(songs, 1, Len(songs) - 1)),
                      songs[Len(songs)])

\* mutant of DedupByKey: the first entry of a key is kept
DedupByKey_FirstWins(songs) ==
    LET firsts == {j \in 1 .. Len(songs) :
                      \A k \in 1 .. j - 1 : songs[k].key # songs[j].key}
    IN  [n \in 1 .. Cardinality(firsts) |->
            songs[CHOOSE j \in firsts :
                      Cardinality({m \in firsts : m < j}) = n - 1]]

\* mutant of DedupByKey: every scraped entry is returned
DedupByKey_Identity(songs) == songs

\* line 523: Array.from(new Map(songs.map(s => [s.key, s])).values()); a Map
\* keeps a key at the position of its first insertion, with the last value
RECURSIVE DedupByKey(_)
DedupByKey(songs) ==
    IF songs = <<>> THEN <<>>
    ELSE LET r == DedupByKey(SubSeq(songs, 1, Len(songs) - 1))
             x == songs[Len(songs)]
         IN  IF \E j \in 1 .. Len(r) : r[j].key = x.key
             THEN [j \in 1 .. Len(r) |-> IF r[j].key = x.key THEN x ELSE r[j]]
             ELSE Append(r, x)

\* mutant of StallRule: a page without new keys ends the loop on any page
StallRule_AnyPage(pn, newUniqueCount) == newUniqueCount = 0

\* mutant of StallRule: a page without new keys never ends the loop
StallRule_Never(pn, newUniqueCount) == FALSE

\* line 479: pageNumber > 1 && newUniqueCount === 0
StallRule(pn, newUniqueCount) == pn > 1 /\ newUniqueCount = 0

\* mutant of OnNavigationFailure: the error leaves fetchPurchasedSongs
OnNavigationFailure_Propagate == "failed"

\* lines 512-515: catch (e) { ...; break; }
OnNavigationFailure == "finish"

\* the entries a page can hold, in document order
PageKinds ==
    {<<>>} \cup {<<k>> : k \in {"A", "B", "C"}}
           \cup {<<k1, k2>> : k1 \in {"A", "B", "C"}, k2 \in {"A", "B", "C"}}
           \cup {<<"A", "B", "C">>, <<"B", "A", "C">>, <<"C", "D">>}

Pages == [songs : PageKinds, next : BOOLEAN]

Sites == UNION {[1 .. n -> Pages] : n \in 1 .. MaxPages}

\* href of the anchor of the first entry, null without one (line 454)
FirstHref(page) == IF page.songs = <<>> THEN "null" ELSE page.songs[1]

KeysOf(songs) == {songs[j].key : j \in 1 .. Len(songs)}

\* the list page is open and its first cell has been waited for (436-448)
ScrapeInit ==
    /\ CoreIdle
    /\ site \in Sites
    /\ shown = 1
    /\ sPc = "scrape"
    /\ pageNumber = 1
    /\ firstSongOnPageHref = "null"
    /\ collectedSongs = <<>>
    /\ collectedSongUrls = {}
    /\ uniqueSongs = <<>>
    /\ scraped = <<>>
    /\ nextLookups = {}
    /\ stopReason = "none"
    /\ NameIdle
    /\ MixerIdle
    /\ SessionIdle

\* what fetchPurchasedSongs leaves alone
scrapeRest == <<coreVars, nameVars, mixerVars, sessionVars>>

\* lines 452-482: scrape the page on display, count the new keys, and stop
\* when the stall rule applies
S_Scrape ==
    /\ sPc = "scrape"
    /\ \E retitled \in BOOLEAN :
       LET songsOnPage == [j \in 1 .. Len(site[shown].songs) |->
                              IF retitled THEN RetitledSong(site[shown].songs[j])
                              ELSE Song(site[shown].songs[j])]
           initialUniqueCount == Cardinality(collectedSongUrls)
           urls == collectedSongUrls \cup KeysOf(songsOnPage)
           newUniqueCount == Cardinality(urls) - initialUniqueCount
       IN  /\ firstSongOnPageHref' = FirstHref(site[shown])
           /\ collectedSongs' = collectedSongs \o songsOnPage
           /\ collectedSongUrls' = urls
           /\ scraped' = Append(scraped, [page |-> shown, new |-> newUniqueCount])
           /\ IF StallRule(pageNumber, newUniqueCount)
              THEN /\ sPc' = "finish"
                   /\ stopReason' = "stall"
              ELSE /\ sPc' = "next"
                   /\ UNCHANGED stopReason
    /\ UNCHANGED <<site, shown, pageNumber, uniqueSongs, nextLookups>>
    /\ UNCHANGED scrapeRest

\* lines 484-489 and 517-520: look for a[rel="next"]
S_Next ==
    /\ sPc = "next"
    /\ nextLookups' = nextLookups \cup {pageNumber}
    /\ IF site[shown].next
       THEN /\ pageNumber' = pageNumber + 1
            /\ sPc' = "navigate"
            /\ UNCHANGED stopReason
       ELSE /\ sPc' = "finish"
            /\ stopReason' = "nonext"
            /\ UNCHANGED pageNumber
    /\ UNCHANGED <<site, shown, firstSongOnPageHref, collectedSongs,
                   collectedSongUrls, uniqueSongs, scraped>>
    /\ UNCHANGED scrapeRest

\* lines 491-516: click 'next' and wait until the first entry's href differs
\* from the one recorded before the click.  The click may fail; the content
\* may stay as it is or be replaced by any page of the site (the link may
\* lead back to a page already shown).
S_Navigate ==
    /\ sPc = "navigate"
    /\ \/ /\ sPc' = OnNavigationFailure
          /\ stopReason' = "clickfailed"
          /\ UNCHANGED shown
       \/ /\ \E target \in 1 .. Len(site) :
                /\ shown' = target
                /\ IF FirstHref(site[target]) # firstSongOnPageHref
                   THEN /\ sPc' = "scrape"
                        /\ UNCHANGED stopReason
                   ELSE /\ sPc' = OnNavigationFailure
                        /\ stopReason' = "timeout"
    /\ UNCHANGED <<site, pageNumber, firstSongOnPageHref, collectedSongs,
                   collectedSongUrls, uniqueSongs, scraped, nextLookups>>
    /\ UNCHANGED scrapeRest

\* lines 522-530: deduplicate by key, sort by name, return
S_Finish ==
    /\ sPc = "finish"
    /\ uniqueSongs' = SortByName(DedupByKey(collectedSongs))
    /\ sPc' = "returned"
    /\ UNCHANGED <<site, shown, pageNumber, firstSongOnPageHref, collectedSongs,
                   collectedSongUrls, scraped, nextLookups, stopReason>>
    /\ UNCHANGED scrapeRest

ScrapeNext ==
    \/ S_Scrape
    \/ S_Next
    \/ S_Navigate
    \/ S_Finish

ScrapeSpec == ScrapeInit /\ [][ScrapeNext]_vars

\* =========================== src/downloader.js: finalFileName (681-689)
\* A string is a sequence of characters; a character is a one-letter
\* string, or a name for a character that has no ASCII spelling.
AsciiLower ==
    {"a", "b", "c", "d", "e", "f", "g", "h", "i", "j", "k", "l", "m",
     "n", "o", "p", "q", "r", "s", "t", "u", "v", "w", "x", "y", "z"}

AsciiUpper ==
    {"A", "B", "C", "D", "E", "F", "G", "H", "I", "J", "K", "L", "M",
     "N", "O", "P", "Q", "R", "S", "T", "U", "V", "W", "X", "Y", "Z"}

AsciiDigits == {"0", "1", "2", "3", "4", "5", "6", "7", "8", "9"}

\* characters matched by \s: space, tab, no-break space
Whitespace == {" ", "TAB", "NBSP"}

IsWhitespace(c) == c \in Whitespace

\* mutant of MatchesDisallowed: nothing is replaced
MatchesDisallowed_Nothing(c) == FALSE

\* /[^a-z0-9\s-]/gi : with the i flag a-z also stands for A-Z
MatchesDisallowed(c) ==
    c \notin (AsciiLower \cup AsciiUpper \cup AsciiDigits \cup Whitespace \cup {"-"})

\* .replace(/[^a-z0-9\s-]/gi, '_')
ReplaceDisallowed(str) ==
    [j \in 1 .. Len(str) |-> IF MatchesDisallowed(str[j]) THEN "_" ELSE str[j]]

\* .replace(/\s+/g, ' ')
RECURSIVE CollapseWhitespace(_)
CollapseWhitespace(str) ==
    IF str = <<>> THEN <<>>
    ELSE IF IsWhitespace(Head(str))
         THEN IF Len(str) > 1 /\ IsWhitespace(str[2])
              THEN CollapseWhitespace(Tail(str))
              ELSE <<" ">> \o CollapseWhitespace(Tail(str))
         ELSE <<Head(str)>> \o CollapseWhitespace(Tail(str))

\* String.prototype.trim
RECURSIVE TrimStart(_)
TrimStart(str) ==
    IF str # <<>> /\ IsWhitespace(Head(str)) THEN TrimStart(Tail(str)) ELSE str

RECURSIVE TrimEnd(_)
TrimEnd(str) ==
    IF str # <<>> /\ IsWhitespace(str[Len(str)])
    THEN TrimEnd(SubSeq(str, 1, Len(str) - 1))
    ELSE str

Trim(str) == TrimEnd(TrimStart(str))

DigitChar(n) ==
    CASE n = 0 -> "0" [] n = 1 -> "1" [] n = 2 -> "2" [] n = 3 -> "3"
      [] n = 4 -> "4" [] n = 5 -> "5" [] n = 6 -> "6" [] n = 7 -> "7"
      [] n = 8 -> "8" [] n = 9 -> "9"

\* String(n) for n >= 0
RECURSIVE ToDecimal(_)
ToDecimal(n) ==
    IF n < 10 THEN <<DigitChar(n)>>
    ELSE ToDecimal(n \div 10) \o <<DigitChar(n % 10)>>

\* String(i + 1).padStart(2, '0')
PadStart2(n) ==
    LET str == ToDecimal(n)
    IN  IF Len(str) < 2 THEN <<"0">> \o str ELSE str

\* line 686
SafeTrackName(name) == CollapseWhitespace(ReplaceDisallowed(name))

\* lines 686-688: `${trackNumber} - ${safeTrackName}.mp3`
FinalFileName(idx, name) ==
    PadStart2(idx + 1) \o <<" ", "-", " ">> \o SafeTrackName(name)
                       \o <<".", "m", "p", "3">>

\* "Lead Vocal (Take 2)"
LeadVocalTake2 ==
    <<"L", "e", "a", "d", " ", "V", "o", "c", "a", "l", " ", "(", "T", "a",
      "k", "e", " ", "2", ")">>

\* characters a caption is drawn from: ASCII letters, a digit, kinds of
\* whitespace, the hyphen, a bracket, an accented letter
CaptionChars == {"a", "Z", "7", " ", "TAB", "-", "(", "e_acute"}

Captions ==
    UNION {[1 .. n -> CaptionChars] : n \in 1 .. MaxNameLen}
        \cup {LeadVocalTake2}

\* loop indices the name is computed for
TrackIndexes == {0, 2, 8, 9, 10, 99}

NameInit ==
    /\ CoreIdle
    /\ ScrapeIdle
    /\ MixerIdle
    /\ SessionIdle
    /\ nPc = "caption"
    /\ caption \in Captions
    /\ fnIndex \in TrackIndexes
    /\ trackName = <<>>
    /\ finalFileName = <<>>

\* lines 681-689: read and trim the caption, compute finalFileName
N_FileName ==
    /\ nPc = "caption"
    /\ trackName' = Trim(caption)
    /\ finalFileName' = FinalFileName(fnIndex, Trim(caption))
    /\ nPc' = "named"
    /\ UNCHANGED <<caption, fnIndex, coreVars, scrapeVars, mixerVars,
                   sessionVars>>

NameNext == N_FileName

NameSpec == NameInit /\ [][NameNext]_vars

\* ========================= src/downloader-gpt.js: findMixerContext (92-162)
\* contexts of the page: 0 is the top-level document (the main frame),
\* 1 .. MaxFrames are the nested frames; page.frames() lists all of them
FrameIds == 1 .. MaxFrames
Contexts == 0 .. MaxFrames

\* OPEN_MIXER_CANDIDATES, lines 17-26, by position
OpenMixerCandidates == 1 .. 8

\* positions 6-8 use :has-text(...), which is not CSS: querySelector
\* rejects the selector and page.$ throws
SelectorIsValid(c) == c \notin {6, 7, 8}

\* page.$(MIXER_ROOT) / f.$(MIXER_ROOT) in context c
RootFoundIn(c) == rootMounted /\ rootHome = c

\* the page when findMixerContext is called
MixerInit ==
    /\ CoreIdle
    /\ ScrapeIdle
    /\ NameIdle
    /\ SessionIdle
    /\ fPc = "checkMain"
    /\ rootHome \in {-1} \cup Contexts
    /\ rootMounted \in BOOLEAN
    /\ (rootHome = -1 => ~rootMounted)
    /\ mountedAt = IF rootMounted THEN 0 ELSE -1
    /\ opener \in {0} \cup OpenMixerCandidates
    /\ mixerIframe \in {0} \cup FrameIds
    /\ readable \in SUBSET Contexts
    /\ fElapsed = 0
    /\ fResult = NoHandle
    /\ fError = "none"
    /\ dumped = {}
    /\ moreOpeners \in BOOLEAN
    /\ (moreOpeners => opener \in 1 .. 7)
    /\ throwing \in SUBSET FrameIds
    /\ firstProbe = "none"
    /\ openerClicks = 0
    /\ frameScans = 0
    /\ scrolls = 0

\* what findMixerContext leaves alone
mixerRest == <<coreVars, scrapeVars, nameVars, sessionVars>>

\* line 104 with the return dropped: the search goes on to the openers
AfterFirstProbe_GoOn(found) == "opener"

\* line 104: return at once when the top-level document has the root
AfterFirstProbe(found) == IF found THEN "returned" ELSE "opener"

\* line 104: the root in the top-level document
F_CheckMain ==
    /\ fPc = "checkMain"
    /\ firstProbe' = IF RootFoundIn(0) THEN "found" ELSE "absent"
    /\ fPc' = AfterFirstProbe(RootFoundIn(0))
    /\ fResult' = IF fPc' = "returned" THEN [handle |-> 0, type |-> "page"]
                  ELSE fResult
    /\ UNCHANGED <<rootHome, rootMounted, mountedAt, opener, mixerIframe,
                   readable, fElapsed, fError, dumped>>
    /\ UNCHANGED <<mixerPage, openerClicks, frameScans, scrolls>>
    /\ UNCHANGED mixerRest

\* lines 108-115 without the break of line 114: a later candidate that
\* matches is clicked as well
OpenerClicks_NoBreak(first, more) ==
    IF first = 0 THEN 0 ELSE IF more THEN 2 ELSE 1

\* lines 108-115: el.click() on the first candidate found, then break (or
\* return), so that no later candidate is queried
OpenerClicks(first, more) == IF first = 0 THEN 0 ELSE 1

\* lines 106-116: query the opener candidates in order and click the first
\* one found; a candidate whose selector is not valid makes page.$ throw
F_Opener ==
    /\ fPc = "opener"
    /\ LET queried == IF opener = 0 THEN OpenMixerCandidates ELSE 1 .. opener
       IN  IF \E c \in queried : ~SelectorIsValid(c)
           THEN /\ fPc' = "failed"
                /\ fError' = "selectorSyntax"
                /\ UNCHANGED <<rootMounted, mountedAt, fResult, openerClicks>>
           ELSE /\ openerClicks' =
                      openerClicks + OpenerClicks(opener, moreOpeners)
                /\ \E m \in {rootMounted, rootHome # -1} :
                      /\ rootMounted' = m
                      /\ mountedAt' = IF m /\ ~rootMounted THEN fElapsed
                                      ELSE mountedAt
                      /\ IF m /\ rootHome = 0
                         THEN /\ fResult' = [handle |-> 0, type |-> "page"]
                              /\ fPc' = "returned"
                         ELSE /\ fPc' = "poll"
                              /\ UNCHANGED fResult
                /\ UNCHANGED fError
    /\ UNCHANGED <<rootHome, opener, mixerIframe, readable, fElapsed, dumped>>
    /\ UNCHANGED <<mixerPage, firstProbe, frameScans, scrolls>>
    /\ UNCHANGED mixerRest

\* lines 122-128: the pass over page.frames() probes the frames in order
\* and stops at the first one that has the root; it reaches a frame whose
\* f.$ throws when no frame before it has stopped the pass
ScanReachesThrowingFrame ==
    \E t \in throwing :
        ~\E f \in 1 .. (t - 1) : f \notin throwing /\ RootFoundIn(f)

\* lines 123-127 without the try: the error of f.$ leaves the function
OnFrameAccessError_Propagate == "thrown"

\* lines 123-127: catch { /* ignore */ }, the pass goes on to the next frame
OnFrameAccessError == "ignored"

\* lines 118-145: one round of the polling loop: the top-level document,
\* every frame of page.frames(), the likely mixer iframe (waited on for up
\* to 5 s), then scroll and sleep; or the exit of the loop at the deadline
F_Poll ==
    /\ fPc = "poll"
    /\ IF fElapsed < FindTimeoutTicks
       THEN IF RootFoundIn(0)
            THEN /\ fResult' = [handle |-> 0, type |-> "page"]
                 /\ fPc' = "returned"
                 /\ UNCHANGED <<fElapsed, rootMounted, mountedAt, fError,
                                frameScans, scrolls>>
            ELSE /\ frameScans' = frameScans + 1
                 /\ IF ScanReachesThrowingFrame
                       /\ OnFrameAccessError = "thrown"
                    THEN /\ fPc' = "failed"
                         /\ fError' = "frameAccess"
                         /\ UNCHANGED <<fResult, fElapsed, rootMounted,
                                        mountedAt, scrolls>>
                    ELSE IF \E f \in FrameIds \ throwing : RootFoundIn(f)
                    THEN /\ fResult' = [handle |-> rootHome, type |-> "frame"]
                         /\ fPc' = "returned"
                         /\ UNCHANGED <<fElapsed, rootMounted, mountedAt,
                                        fError, scrolls>>
                    ELSE \/ /\ mixerIframe # 0
                            /\ mixerIframe \notin throwing
                            /\ rootHome = mixerIframe
                            /\ rootMounted' = TRUE
                            /\ mountedAt' = fElapsed
                            /\ fResult' =
                                  [handle |-> mixerIframe, type |-> "frame"]
                            /\ fPc' = "returned"
                            /\ UNCHANGED <<fElapsed, fError, scrolls>>
                         \/ /\ fElapsed' = fElapsed + 1
                            /\ scrolls' = scrolls + 1
                            /\ UNCHANGED <<fResult, fPc, rootMounted,
                                           mountedAt, fError>>
       ELSE /\ fPc' = "dump"
            /\ UNCHANGED <<fResult, fElapsed, rootMounted, mountedAt, fError,
                           frameScans, scrolls>>
    /\ UNCHANGED <<rootHome, opener, mixerIframe, readable, dumped>>
    /\ UNCHANGED <<mixerPage, firstProbe, openerClicks>>
    /\ UNCHANGED mixerRest

\* lines 147-161: write error_frame_<n>.html for every frame whose content
\* could be read, then throw the mixer-not-found error
F_Dump ==
    /\ fPc = "dump"
    /\ dumped' = readable
    /\ fPc' = "failed"
    /\ fError' = "mixerNotFound"
    /\ UNCHANGED <<rootHome, rootMounted, mountedAt, opener, mixerIframe,
                   readable, fElapsed, fResult>>
    /\ UNCHANGED <<mixerPage, mixerHist>>
    /\ UNCHANGED mixerRest

\* the page mounts the root in its context while the search is under way
PageMountsRoot ==
    /\ fPc \in {"checkMain", "opener", "poll"}
    /\ rootHome # -1
    /\ ~rootMounted
    /\ rootMounted' = TRUE
    /\ mountedAt' = fElapsed
    /\ UNCHANGED <<fPc, rootHome, opener, mixerIframe, readable, fElapsed,
                   fResult, fError, dumped>>
    /\ UNCHANGED <<mixerPage, mixerHist>>
    /\ UNCHANGED mixerRest

MixerNext ==
    \/ F_CheckMain
    \/ F_Opener
    \/ F_Poll
    \/ F_Dump
    \/ PageMountsRoot

MixerSpec == MixerInit /\ [][MixerNext]_vars

\* ======================================= src/downloader.js: main (533-668)
\* what config.json may hold when main starts: no file, a file that cannot
\* be read, text that is not JSON, the JSON texts null and 5, or a record
ConfigFileKinds == {"missing", "unreadable", "invalid", "null", "scalar"}

ConfigRecords ==
    [kind : {"record"}, email : {"undef", "e1"}, password : {"undef", "p1"},
     click : {"undef", "false"}]

ConfigFiles ==
    {[EmptyConfig EXCEPT !.kind = k] : k \in ConfigFileKinds} \cup ConfigRecords

\* loadConfig, lines 318-329: {} without a file or when reading or parsing
\* throws, else whatever JSON.parse returns
LoadConfig(file) ==
    IF file.kind \in {"missing", "unreadable", "invalid"} THEN EmptyConfig
    ELSE file

\* reading a property of the loaded value throws when the value is null
PropertyReadThrows(value) == value.kind = "null"

\* config.email, config.password: undefined on a value without the property
Property(value, name) ==
    IF value.kind = "record" THEN value[name] ELSE "undef"

\* inquirer input with a default: an empty entry takes the default
Answer(typed, default) ==
    IF typed = "" /\ default # "undef" THEN default ELSE typed

\* mutant of OnMixError: the error leaves processSong
OnMixError_Propagate == "thrown"

\* lines 430-432: the catch of processSong
OnMixError == "caught"

SessionInit ==
    /\ CoreIdle
    /\ ScrapeIdle
    /\ NameIdle
    /\ MixerIdle
    /\ mPc = "load"
    /\ mErr = "none"
    /\ configFile \in ConfigFiles
    /\ configWritable \in BOOLEAN
    /\ config = EmptyConfig
    /\ email = ""
    /\ password = ""
    /\ songUrl = ""
    /\ enableClickTrack = FALSE
    /\ purchased = FALSE
    /\ rounds = 0
    /\ browserOpen = FALSE
    /\ closes = 0
    /\ pPc = "idle"
    /\ pRet = "none"
    /\ fatalMixes = 0
    /\ scraping = 0
    /\ mixing = 0
    /\ controlMissing = FALSE
    /\ loopRan = FALSE
    /\ mixOutcome = [t \in Tracks |-> "none"]
    /\ reported = "none"
    /\ snapshotFiles = {}

\* what main leaves alone
sessionRest == <<coreVars, scrapeVars, nameVars, mixerVars>>

\* line 536
M_LoadConfig ==
    /\ mPc = "load"
    /\ config' = LoadConfig(configFile)
    /\ mPc' = "credentials"
    /\ UNCHANGED <<mErr, configFile, configWritable, credVars, menuVars,
                   browserVars, procVars>>
    /\ UNCHANGED callVars
    /\ UNCHANGED mixVars
    /\ UNCHANGED snapshotFiles
    /\ UNCHANGED sessionRest

\* lines 538-559: the credential prompt, built with config.email and
\* config.password as defaults; main returns when an answer is empty
M_Credentials ==
    /\ mPc = "credentials"
    /\ IF PropertyReadThrows(config)
       THEN /\ mPc' = "crashed"
            /\ mErr' = "config"
            /\ UNCHANGED credVars
       ELSE \E typedEmail \in {"", "e2"}, typedPassword \in {"", "p2"} :
                /\ email' = Answer(typedEmail, Property(config, "email"))
                /\ password' = Answer(typedPassword, Property(config, "password"))
                /\ mPc' = IF email' = "" \/ password' = "" THEN "ended"
                          ELSE "launch"
                /\ UNCHANGED mErr
    /\ UNCHANGED <<cfgVars, menuVars, browserVars, procVars>>
    /\ UNCHANGED callVars
    /\ UNCHANGED mixVars
    /\ UNCHANGED snapshotFiles
    /\ UNCHANGED sessionRest

\* lines 561-568: puppeteer.launch and browser.newPage, outside the try
M_Launch ==
    /\ mPc = "launch"
    /\ \/ /\ browserOpen' = TRUE
          /\ mPc' = "login"
          /\ UNCHANGED mErr
       \/ /\ browserOpen' \in BOOLEAN
          /\ mPc' = "crashed"
          /\ mErr' = "launch"
    /\ UNCHANGED <<cfgVars, credVars, menuVars, closes, procVars>>
    /\ UNCHANGED callVars
    /\ UNCHANGED mixVars
    /\ UNCHANGED snapshotFiles
    /\ UNCHANGED sessionRest

\* lines 572-588: log in
M_Login ==
    /\ mPc = "login"
    /\ \/ /\ mPc' = "fetch"
          /\ UNCHANGED mErr
       \/ /\ mPc' = "mainCatch"
          /\ mErr' = "login"
    /\ UNCHANGED <<cfgVars, credVars, menuVars, browserVars, procVars>>
    /\ UNCHANGED callVars
    /\ UNCHANGED mixVars
    /\ UNCHANGED snapshotFiles
    /\ UNCHANGED sessionRest

\* mutant of AfterCall: main goes on without waiting for the call
AfterCall_NoAwait(waiting, next) == next

\* lines 591, 622 and 655: every call is awaited, main is suspended in it
AfterCall(waiting, next) == waiting

\* lines 591 and 622: fetchPurchasedSongs(page) is called
M_Fetch ==
    /\ mPc = "fetch"
    /\ scraping' = scraping + 1
    /\ mPc' = AfterCall("fetching", "menu")
    /\ UNCHANGED <<mErr, cfgVars, credVars, menuVars, browserVars, procVars,
                   mixing>>
    /\ UNCHANGED mixVars
    /\ UNCHANGED snapshotFiles
    /\ UNCHANGED sessionRest

\* lines 591 and 622: the await ends, purchasedSongs is assigned or the
\* error of fetchPurchasedSongs (lines 438, 444) is rethrown in main
M_Fetched ==
    /\ mPc = "fetching"
    /\ scraping' = scraping - 1
    /\ \/ /\ purchased' \in BOOLEAN
          /\ mPc' = "menu"
          /\ UNCHANGED mErr
       \/ /\ mPc' = "mainCatch"
          /\ mErr' = "fetch"
          /\ UNCHANGED purchased
    /\ UNCHANGED <<cfgVars, credVars, songUrl, enableClickTrack, rounds,
                   browserVars, procVars, mixing>>
    /\ UNCHANGED mixVars
    /\ UNCHANGED snapshotFiles
    /\ UNCHANGED sessionRest

\* lines 594-641: the menu: Exit, Refresh, a manual URL, or a listed song
M_Menu ==
    /\ mPc = "menu"
    /\ \/ /\ mPc' = "closing"
          /\ UNCHANGED <<songUrl, rounds>>
       \/ /\ rounds < MaxMenuRounds
          /\ rounds' = rounds + 1
          /\ \/ /\ mPc' = "fetch"
                /\ UNCHANGED songUrl
             \/ /\ songUrl' = ""
                /\ mPc' = "menu"
             \/ /\ songUrl' = "manual"
                /\ mPc' = "clickTrack"
             \/ /\ purchased
                /\ songUrl' = "listed"
                /\ mPc' = "clickTrack"
    /\ UNCHANGED <<mErr, cfgVars, credVars, enableClickTrack, purchased,
                   browserVars, procVars>>
    /\ UNCHANGED callVars
    /\ UNCHANGED mixVars
    /\ UNCHANGED snapshotFiles
    /\ UNCHANGED sessionRest

\* lines 643-650: the 'Intro Click' prompt
M_ClickTrack ==
    /\ mPc = "clickTrack"
    /\ enableClickTrack' \in BOOLEAN
    /\ mPc' = "save"
    /\ UNCHANGED <<mErr, cfgVars, credVars, songUrl, purchased, rounds,
                   browserVars, procVars>>
    /\ UNCHANGED callVars
    /\ UNCHANGED mixVars
    /\ UNCHANGED snapshotFiles
    /\ UNCHANGED sessionRest

\* line 653 with saveConfig, lines 331-337: a failed write is logged only;
\* line 655: processSong is called
M_SaveConfig ==
    /\ mPc = "save"
    /\ configFile' = IF configWritable
                     THEN [kind |-> "record", email |-> email,
                           password |-> password,
                           click |-> IF enableClickTrack THEN "true"
                                     ELSE "false"]
                     ELSE configFile
    /\ mPc' = AfterCall("process", "menu")
    /\ pPc' = "navigate"
    /\ pRet' = "none"
    /\ mixing' = mixing + 1
    /\ controlMissing' = FALSE
    /\ loopRan' = FALSE
    /\ mixOutcome' = [t \in Tracks |-> "none"]
    /\ reported' = "none"
    /\ UNCHANGED <<mErr, configWritable, config, credVars, menuVars,
                   browserVars, fatalMixes, scraping>>
    /\ UNCHANGED snapshotFiles
    /\ UNCHANGED sessionRest

\* one step of processSong's try block: it completes, or it throws
PStep(from, to) ==
    /\ mPc = "process"
    /\ pPc = from
    /\ pPc' \in {to, OnMixError}
    /\ UNCHANGED <<mPc, mErr, cfgVars, credVars, menuVars, browserVars, pRet,
                   fatalMixes>>
    /\ UNCHANGED callVars
    /\ UNCHANGED mixVars
    /\ UNCHANGED snapshotFiles
    /\ UNCHANGED sessionRest

\* lines 364-365: navigateToSongPage, handleCookieConsent
P_Navigate == PStep("navigate", "prepare")

\* lines 367-384: title, download directory, download behaviour
P_Prepare == PStep("prepare", "mixer")

\* lines 386-389: waitForSelector('#html-mixer')
P_Mixer == PStep("mixer", "precount")

\* lines 391-405: the '#precount' control
P_ClickTrack == PStep("precount", "verify")

\* mutant of AfterVerify: the tracks are downloaded whatever the page shows
AfterVerify_Ignored(present) == "tracks"

\* lines 410-416: return when 'a.download' is absent or its text does not
\* include 'download'
AfterVerify(present) == IF present THEN "tracks" ELSE "returned"

\* lines 407-416: without a download control processSong returns false
P_Verify ==
    /\ mPc = "process"
    /\ pPc = "verify"
    /\ \/ \E present \in BOOLEAN :
              /\ controlMissing' = ~present
              /\ pPc' = AfterVerify(present)
              /\ pRet' = IF pPc' = "returned" THEN "false" ELSE pRet
       \/ /\ pPc' = OnMixError
          /\ UNCHANGED <<pRet, controlMissing>>
    /\ UNCHANGED <<mPc, mErr, cfgVars, credVars, menuVars, browserVars,
                   fatalMixes, loopRan, mixOutcome, reported>>
    /\ UNCHANGED callVars
    /\ UNCHANGED snapshotFiles
    /\ UNCHANGED sessionRest

\* how the loop of downloadAllTracks can leave a track it has finished:
\* the file existed (lines 692-697), it was renamed (736-740), or the
\* operator chose Skip after a timeout (763-765)
TrackOutcomes == {"existing", "completed", "skipped"}

\* the tracks 0 .. n-1 are finished, the others are not
FinishedUpTo(n) ==
    {o \in [Tracks -> TrackOutcomes \cup {"none"}] :
        \A t \in Tracks : (o[t] # "none") <=> (t < n)}

\* lines 418-429: the tracks, downloadAllTracks, success = true; when
\* downloadAllTracks returns every track is finished, when it throws the
\* tracks before the current one are
P_Download ==
    /\ mPc = "process"
    /\ pPc = "tracks"
    /\ \/ /\ pPc' = "returned"
          /\ pRet' = "success"
          /\ loopRan' = TRUE
          /\ mixOutcome' \in FinishedUpTo(MaxTracks)
       \/ /\ pPc' = OnMixError
          /\ \E n \in Tracks :
                 /\ loopRan' = TRUE
                 /\ mixOutcome' \in FinishedUpTo(n)
          /\ UNCHANGED pRet
       \/ /\ pPc' = OnMixError
          /\ UNCHANGED <<pRet, loopRan, mixOutcome>>
    /\ UNCHANGED <<mPc, mErr, cfgVars, credVars, menuVars, browserVars,
                   fatalMixes, controlMissing, reported>>
    /\ UNCHANGED callVars
    /\ UNCHANGED snapshotFiles
    /\ UNCHANGED sessionRest

\* lines 430-433: log the error with console.error, return
\* { success: false, ... }; nothing is written to disk
P_Catch ==
    /\ mPc = "process"
    /\ pPc = "caught"
    /\ pPc' = "returned"
    /\ pRet' = "failure"
    /\ fatalMixes' = fatalMixes + 1
    /\ UNCHANGED <<mPc, mErr, cfgVars, credVars, menuVars, browserVars>>
    /\ UNCHANGED callVars
    /\ UNCHANGED mixVars
    /\ UNCHANGED snapshotFiles
    /\ UNCHANGED sessionRest

\* line 655: const { success, songTitle } = value; the value false has no
\* property success
SuccessOf(ret) ==
    CASE ret = "success" -> "true"
      [] ret = "failure" -> "false"
      [] OTHER -> "undefined"

\* line 656: if (success)
Truthy(value) == value = "true"

\* lines 655-661: the await of processSong ends; report and loop
M_Report ==
    /\ mPc = "process"
    /\ pPc \in {"returned", "thrown"}
    /\ IF pPc = "returned"
       THEN /\ mPc' = "menu"
            /\ reported' = IF Truthy(SuccessOf(pRet)) THEN "success"
                            ELSE "issues"
            /\ UNCHANGED mErr
       ELSE /\ mPc' = "mainCatch"
            /\ mErr' = "mix"
            /\ UNCHANGED reported
    /\ pPc' = "idle"
    /\ mixing' = mixing - 1
    /\ UNCHANGED <<cfgVars, credVars, menuVars, browserVars, pRet, fatalMixes,
                   scraping, controlMissing, loopRan, mixOutcome>>
    /\ UNCHANGED snapshotFiles
    /\ UNCHANGED sessionRest

\* lines 662-663: the catch of main: console.error only
M_Catch ==
    /\ mPc = "mainCatch"
    /\ mPc' = "closing"
    /\ UNCHANGED <<mErr, cfgVars, credVars, menuVars, browserVars, procVars>>
    /\ UNCHANGED callVars
    /\ UNCHANGED mixVars
    /\ UNCHANGED snapshotFiles
    /\ UNCHANGED sessionRest

\* lines 664-667: finally, browser.close()
M_Close ==
    /\ mPc = "closing"
    /\ browserOpen' = FALSE
    /\ closes' = closes + 1
    /\ mPc' = "ended"
    /\ UNCHANGED <<mErr, cfgVars, credVars, menuVars, procVars>>
    /\ UNCHANGED callVars
    /\ UNCHANGED mixVars
    /\ UNCHANGED snapshotFiles
    /\ UNCHANGED sessionRest

ProcessSong ==
    \/ P_Navigate
    \/ P_Prepare
    \/ P_Mixer
    \/ P_ClickTrack
    \/ P_Verify
    \/ P_Download
    \/ P_Catch

SessionNext ==
    \/ M_LoadConfig
    \/ M_Credentials
    \/ M_Launch
    \/ M_Login
    \/ M_Fetch
    \/ M_Fetched
    \/ M_Menu
    \/ M_ClickTrack
    \/ M_SaveConfig
    \/ ProcessSong
    \/ M_Report
    \/ M_Catch
    \/ M_Close

SessionSpec == SessionInit /\ [][SessionNext]_vars

\* main is an async function on the event loop of Node: a continuation that
\* can run does run
SessionFairSpec == SessionSpec /\ WF_vars(SessionNext)

TypeOK ==
    /\ pc \in {"mkdir", "resolve", "solo", "trigger", "snapshot", "poll",
               "rename", "cleanupList", "cleanupUnlink", "prompt", "modal",
               "unsolo", "done", "error", "L_solo", "L_trigger", "L_snapshot",
               "L_poll", "L_rename", "L_unsolo", "G_solo", "G_count", "G_click",
               "G_wait", "G_unsolo", "idle"}
    /\ sPc \in {"idle", "scrape", "next", "navigate", "finish", "returned",
                "failed"}
    /\ i \in 0 .. MaxTracks
    /\ dir \subseteq Names
    /\ Len(dl) <= MaxDownloads

\* ================================================================ claims

\* C8: the file returned by the completion detector is never one of the
\* snapshot taken before polling and never carries the in-progress suffix
\* (.crdownload).
C8_DetectorReturnsNewCompleteFile ==
    newFilePath # NoFile =>
        /\ newFilePath \notin filesBefore
        /\ ~EndsWithCrdownload(newFilePath)

\* C8 witness: the directory went {} -> {x.crdownload} -> {x.mp3}: the
\* snapshot was empty, a poll saw the partial file and went on, and the
\* detector then returned x.mp3.
C8_Witness ==
    /\ pc = "rename"
    /\ filesBefore = {}
    /\ sawPartial
    /\ newFilePath = Mp3(1)

\* C1: a track whose target file already exists when it is reached gets no
\* solo activation and no download activation, is counted as completed,
\* and the loop has moved on to the next index.
C1_IdempotentSkip ==
    /\ progress = i
    /\ \A t \in Tracks :
          existedWhenReached[t] = "yes" =>
              /\ soloClicks[t] = 0
              /\ cycles[t] = 0
              /\ DlClicks(t) = 0
              /\ outcome[t] = "existing"
              /\ i > t

\* C1 witness: track 0 was skipped because its file existed and the run
\* went on to download track 1.
C1_Witness ==
    /\ pc = "done"
    /\ existedWhenReached[0] = "yes"
    /\ outcome[1] = "completed"

\* C3: the indices are entered in the order 0, 1, 2, ...: every smaller
\* index has a final outcome, no larger index has been touched, and no
\* track is soloed when the isolate step of an index begins.
C3_AscendingOrderFromBaseline ==
    /\ \A k \in 1 .. Len(visits) : visits[k] = k - 1
    /\ \A t \in Tracks :
          /\ t < i => outcome[t] \in {"existing", "completed", "skipped"}
          /\ t > i => (cycles[t] = 0 /\ outcome[t] = "none")
    /\ pc = "solo" => soloed = {}

\* C3 witness: the isolate step of index 1 begins after track 0 has been
\* soloed and un-soloed.
C3_Witness ==
    /\ pc = "solo"
    /\ i = 1
    /\ soloClicks[0] = 2
    /\ visits = <<0, 1>>

\* C7: a track whose file did not pre-exist has had one cycle plus one
\* cycle per Retry answer when it is left; Retry answers and cycles are
\* only ever counted for the current index.
C7_OneCyclePerRetry ==
    \A t \in Tracks :
        /\ (t < i /\ existedWhenReached[t] = "no") => cycles[t] = 1 + retries[t]
        /\ (t < i /\ existedWhenReached[t] = "yes") => (cycles[t] = 0 /\ retries[t] = 0)
        /\ t = i => cycles[t] \in {retries[t], retries[t] + 1}
        /\ t > i => (cycles[t] = 0 /\ retries[t] = 0)

\* C7 witness: track 0 timed out once, the operator answered Retry, and the
\* second cycle completed it.
C7_Witness ==
    /\ i = 1
    /\ retries[0] = 1
    /\ cycles[0] = 2
    /\ outcome[0] = "completed"

\* C5: a download timeout never ends the processing of the mix: the steps
\* that handle a timed-out attempt (cleanup and prompt) raise no error, so
\* the run is never ended from there.
C5_TimeoutNeverAborts ==
    pc = "error" => errorAt # "cleanup"

\* C6: right after the operator has answered Retry for a timed-out attempt,
\* the directory holds no in-progress (.crdownload) file of the download
\* that the attempt requested.
C6_NoPartialLeftAfterRetry ==
    [][(pc = "prompt" /\ pc' = "modal" /\ ~userSkipped')
          => Part(Len(dl)) \notin dir']_vars

\* C9: an attempt whose polling loop found no candidate before the deadline
\* ends without a file reference and without a rename; a file is returned
\* only for a candidate seen before the deadline; and the loop is left no
\* later than deadline + one poll interval + the grace interval.
C9_TimedOutWithinBound ==
    /\ pc \in {"cleanupList", "cleanupUnlink", "prompt"} =>
          /\ newFilePath = NoFile
          /\ elapsed >= TimeoutTicks
    /\ (pc \in {"cleanupList", "cleanupUnlink", "prompt", "modal", "unsolo"}
           /\ newFilePath = NoFile) =>
          /\ renames[i] = 0
          /\ Canon(i) \notin dir
          /\ ~downloadSuccessful
    /\ pc = "rename" => elapsed - GraceTicks < TimeoutTicks
    /\ (pc = "G_unsolo" /\ outcome[i] = "timedout") =>
          /\ elapsed >= TimeoutTicks
          /\ renames[i] = 0
    /\ elapsed <= TimeoutTicks + PollTicks + GraceTicks

\* C9 witness: the deadline passed without any candidate in the directory
\* and the attempt stands at the Retry/Skip prompt with no file reference.
C9_Witness ==
    /\ pc = "prompt"
    /\ newFilePath = NoFile
    /\ NewFiles(dir, filesBefore) = {}
    /\ Len(dl) = 1
    /\ dl[1].st = "requested"

\* C4: in every reachable state of either orchestrator (waiting for the
\* file, at the Retry/Skip prompt, across retries, after an error) at most
\* one track is isolated, and it is the track of the current index.
C4_AtMostOneIsolated ==
    /\ Cardinality(soloed) <= 1
    /\ soloed \subseteq {i}

\* C4 witness: the prompt is open on the second attempt for a track, which
\* is the only isolated one.
C4_Witness ==
    /\ pc = "prompt"
    /\ retries[i] = 1
    /\ cycles[i] = 2
    /\ soloed = {i}

\* C2: every file present under a canonical track name before the run is
\* still present with its original content.
C2_ExistingFilesKept ==
    \A t \in Tracks :
        Canon(t) \in initDir => (Canon(t) \in dir /\ content[t] = 0)

\* C10: a missing output directory at the snapshot or at a poll of the
\* completion detector is not raised as an error.
C10_ToleratesMissingDirectory ==
    pc = "error" => errorAt \notin {"snapshot", "poll"}

\* the catalog of the dedup scenario: page 1 = {A,B,C} with 'next', page 2 =
\* {C,D} without
DedupScenario ==
    <<[songs |-> <<"A", "B", "C">>, next |-> TRUE],
      [songs |-> <<"C", "D">>, next |-> FALSE]>>

\* keys extracted from the pages fetchPurchasedSongs has scraped
ExtractedKeys ==
    UNION {{site[scraped[j].page].songs[m] :
               m \in 1 .. Len(site[scraped[j].page].songs)} :
           j \in 1 .. Len(scraped)}

\* C11: the returned sequence holds exactly one entry per distinct key
\* extracted from the visited pages; in the dedup scenario with both pages
\* visited the result is {A,B,C,D}, page 2 contributes one new key and the
\* loop ends at page 2 because 'next' is absent.
C11_OneEntryPerDistinctKey ==
    sPc = "returned" =>
        /\ \A j, k \in 1 .. Len(uniqueSongs) :
               j # k => uniqueSongs[j].key # uniqueSongs[k].key
        /\ KeysOf(uniqueSongs) = ExtractedKeys
        /\ (site = DedupScenario /\ Len(scraped) = 2) =>
               /\ KeysOf(uniqueSongs) = {"A", "B", "C", "D"}
               /\ scraped[2] = [page |-> 2, new |-> 1]
               /\ stopReason = "nonext"
               /\ nextLookups = {1, 2}

\* C11 witness: the dedup scenario has been scraped through page 2.
C11_Witness ==
    /\ sPc = "returned"
    /\ site = DedupScenario
    /\ Len(scraped) = 2
    /\ Len(collectedSongs) = 5

\* C12: adjacent entries of the returned sequence are in displayName order.
C12_SortedByDisplayName ==
    sPc = "returned" =>
        \A j \in 1 .. Len(uniqueSongs) - 1 :
            LocaleCompare(uniqueSongs[j].name, uniqueSongs[j + 1].name) <= 0

\* C12 witness: the pages delivered three entries in an order that the sort
\* had to change.
C12_Witness ==
    /\ sPc = "returned"
    /\ Len(uniqueSongs) >= 3
    /\ uniqueSongs # DedupByKey(collectedSongs)

\* C13: a page after the first that contributes no new key ends the loop at
\* once, with no lookup of 'next' on that page and no further click; the
\* rule never fires on the first page, where 'next' is always looked up.
C13_StallRule ==
    /\ \A j \in 1 .. Len(scraped) :
           (j > 1 /\ scraped[j].new = 0) =>
               /\ j = Len(scraped)
               /\ j \notin nextLookups
               /\ pageNumber = j
               /\ stopReason = "stall"
               /\ sPc \in {"finish", "returned"}
    /\ stopReason = "stall" =>
           (Len(scraped) > 1 /\ scraped[Len(scraped)].new = 0)
    /\ (Len(scraped) >= 1 /\ ~(Len(scraped) = 1 /\ sPc = "next")) =>
           1 \in nextLookups

\* C13 witness: page 2 brought nothing new and the loop has ended although
\* the page offers 'next'.
C13_Witness ==
    /\ sPc = "finish"
    /\ stopReason = "stall"
    /\ Len(scraped) = 2
    /\ scraped[2].page = 2
    /\ site[shown].next
    /\ 2 \notin nextLookups

\* C14: a failed click on 'next', or a first entry that does not change
\* before the timeout, does not fail the scrape: the loop ends and the
\* deduplicated, sorted entries of the pages scraped so far are returned.
C14_NavigationFailureEndsPaging ==
    /\ sPc # "failed"
    /\ (sPc = "returned" /\ stopReason \in {"clickfailed", "timeout"}) =>
           /\ KeysOf(uniqueSongs) = collectedSongUrls
           /\ Len(uniqueSongs) = Cardinality(collectedSongUrls)
           /\ Len(scraped) = pageNumber - 1
           /\ \A j \in 1 .. Len(uniqueSongs) - 1 :
                  CollationKey(uniqueSongs[j].name)[1]
                      <= CollationKey(uniqueSongs[j + 1].name)[1]

\* C14 witness: the wait for the changed first entry timed out after page 1
\* and the two entries of page 1 were returned.
C14_Witness ==
    /\ sPc = "returned"
    /\ stopReason = "timeout"
    /\ Len(scraped) = 1
    /\ Len(uniqueSongs) = 2

\* a letter of any script
IsLetter(c) == c \in (AsciiLower \cup AsciiUpper \cup {"e_acute"})

\* kept when letters of any script, digits and the hyphen are kept
KeptAnyLetter(c) == IsLetter(c) \/ c \in AsciiDigits \/ c = "-"

\* kept when only ASCII letters, ASCII digits and the hyphen are kept
KeptAscii(c) == c \in (AsciiLower \cup AsciiUpper \cup AsciiDigits \cup {"-"})

NotWhitespace(c) == ~IsWhitespace(c)

NotSpace(c) == c # " "

\* pad2(n) for 1 <= n <= 999
ExpectedNumber(n) ==
    IF n < 10 THEN <<"0", DigitChar(n)>>
    ELSE IF n < 100 THEN <<DigitChar(n \div 10), DigitChar(n % 10)>>
    ELSE <<DigitChar(n \div 100), DigitChar((n \div 10) % 10), DigitChar(n % 10)>>

\* "03 - Lead Vocal _Take 2_.mp3"
LeadVocalFileName ==
    <<"0", "3", " ", "-", " ", "L", "e", "a", "d", " ", "V", "o", "c", "a",
      "l", " ", "_", "T", "a", "k", "e", " ", "2", "_", ".", "m", "p", "3">>

\* finalFileName is pad2(i+1), " - ", s(trackName), ".mp3", where s keeps
\* the characters accepted by Kept, writes '_' for every other character
\* that is not whitespace, and writes one space for each run of whitespace
FileNameMatches(Kept(_)) ==
    LET number == ExpectedNumber(fnIndex + 1)
        from == Len(number) + 4
        to == Len(finalFileName) - 4
        mid == SubSeq(finalFileName, from, to)
        dNon == SelectSeq(trackName, NotWhitespace)
        mNon == SelectSeq(mid, NotSpace)
        runs == {j \in 1 .. Len(trackName) :
                    /\ IsWhitespace(trackName[j])
                    /\ (j = 1 \/ ~IsWhitespace(trackName[j - 1]))}
        spaces == {j \in 1 .. Len(mid) : mid[j] = " "}
    IN  /\ Len(finalFileName) >= Len(number) + 7
        /\ SubSeq(finalFileName, 1, from - 1) = number \o <<" ", "-", " ">>
        /\ SubSeq(finalFileName, to + 1, Len(finalFileName))
               = <<".", "m", "p", "3">>
        /\ Len(mNon) = Len(dNon)
        /\ \A j \in 1 .. Len(dNon) :
               mNon[j] = IF Kept(dNon[j]) THEN dNon[j] ELSE "_"
        /\ \A j \in 1 .. Len(mid) :
               /\ mid[j] \notin {"TAB", "NBSP"}
               /\ (j > 1 /\ mid[j] = " ") => mid[j - 1] # " "
        /\ Cardinality(spaces) = Cardinality(runs)
        /\ \A j \in 1 .. Len(trackName) :
               (j \in runs /\ j > 1) =>
                   \E k \in spaces :
                       Len(SelectSeq(SubSeq(mid, 1, k), NotSpace))
                           = Len(SelectSeq(SubSeq(trackName, 1, j), NotWhitespace))

\* C15 as stated: every character other than a letter, digit, whitespace or
\* hyphen becomes '_', runs of whitespace become one space, and the name is
\* pad2(i+1) + " - " + s(d) + ".mp3".
C15_LettersOfAnyScriptKept ==
    nPc = "named" => FileNameMatches(KeptAnyLetter)

\* C15, amended: the characters kept are the ASCII letters a-z and A-Z, the
\* ASCII digits, whitespace and the hyphen; every other character, letters
\* outside ASCII included, becomes '_'; runs of whitespace become one space;
\* "Lead Vocal (Take 2)" with track number 3 gives
\* "03 - Lead Vocal _Take 2_.mp3".
C15_AsciiLettersKept ==
    nPc = "named" =>
        /\ FileNameMatches(KeptAscii)
        /\ (caption = LeadVocalTake2 /\ fnIndex = 2) =>
               finalFileName = LeadVocalFileName

\* C15 witness: the name of track number 3, "Lead Vocal (Take 2)".
C15_Witness ==
    /\ nPc = "named"
    /\ caption = LeadVocalTake2
    /\ fnIndex = 2
    /\ finalFileName = LeadVocalFileName

\* C16: when the root is absent from the top-level document and is mounted
\* in a nested frame before the deadline, findMixerContext returns a handle
\* bound to that frame, wherever the frame is among the page's contexts and
\* whether or not the page has an opener.
C16_NestedRootIsReturned ==
    (/\ rootHome \in FrameIds
     /\ mountedAt # -1
     /\ mountedAt < FindTimeoutTicks
     /\ fPc \in {"returned", "failed"}) =>
        /\ fPc = "returned"
        /\ fResult = [handle |-> rootHome, type |-> "frame"]

\* C17: findMixerContext fails only with the mixer-not-found error, only
\* after the deadline has passed, and only after the snapshot of every
\* context whose content could be read has been written.
C17_FailsOnlyAfterTimeoutWithDump ==
    fPc = "failed" =>
        /\ fError = "mixerNotFound"
        /\ fElapsed >= FindTimeoutTicks
        /\ dumped = readable

\* C18: an error thrown while a mix is processed never leaves processSong:
\* the catch turns it into a 'not successful' result, main goes back to the
\* menu, and the browser stays open and is not closed.
C18_MixErrorReturnsToMenu ==
    [][/\ pPc' # "thrown"
       /\ mErr' # "mix"
       /\ pPc = "caught" =>
              /\ pPc' = "returned"
              /\ pRet' = "failure"
              /\ mPc' = "process"
              /\ browserOpen'
       /\ (mPc = "process" /\ pPc = "returned") =>
              /\ mPc' = "menu"
              /\ browserOpen'
              /\ closes' = 0]_vars

\* C18 witness: a mix has ended in the catch of processSong and the menu is
\* shown again, with the browser open and a further selection possible.
C18_Witness ==
    /\ mPc = "menu"
    /\ fatalMixes = 1
    /\ pRet = "failure"
    /\ browserOpen
    /\ closes = 0
    /\ rounds < MaxMenuRounds

\* C19: whatever config.json holds, start-up is not ended by an error of
\* reading the configuration.
C19_UnreadableConfigNeverFatal ==
    mPc = "crashed" => mErr # "config"

\* C20: when the run has ended and the operator had entered a non-empty
\* email and password, config.json holds a record with those credentials.
C20_CredentialsPersisted ==
    (mPc = "ended" /\ email # "" /\ password # "") =>
        /\ configFile.kind = "record"
        /\ configFile.email = email
        /\ configFile.password = password

\* ---------------------------------------------------------------- C21
\* C21: within one session at most one call of fetchPurchasedSongs or of
\* processSong is in progress at any time, and at most one mix is being
\* processed: a call starts only when every earlier call has returned.
C21_OneActivityAtATime ==
    /\ [](scraping + mixing <= 1)
    /\ [][(scraping' > scraping \/ mixing' > mixing)
              => scraping + mixing = 0]_vars

\* a second selection is being processed after the calls before it returned
C21_Witness == mixing = 1 /\ rounds = 2 /\ pPc = "tracks"

\* ---------------------------------------------------------------- C22
\* C22: every run of main that launches the browser eventually closes it,
\* browser.close() is called exactly once, and once it has been called main
\* has ended: no call of fetchPurchasedSongs or processSong is in progress
\* and none is started.
C22_BrowserClosedExactlyOnce ==
    /\ browserOpen ~> (closes = 1 /\ ~browserOpen)
    /\ [](closes <= 1)
    /\ [](closes > 0 => mPc = "ended" /\ pPc = "idle" /\ scraping + mixing = 0)

\* ---------------------------------------------------------------- C23
\* C23: when processSong finds no download control on the page of the mix,
\* it returns false without calling downloadAllTracks (the only place where
\* isolate and download controls are activated and files are renamed), no
\* track is touched, and main reports the mix as not successful.
C23_MissingControlStopsTheMix ==
    controlMissing =>
        /\ ~loopRan
        /\ \A t \in Tracks : mixOutcome[t] = "none"
        /\ pRet = "false"
        /\ pPc \in {"returned", "idle"}
        /\ pPc = "idle" => reported = "issues"

\* main has reported a mix whose page had no download control
C23_Witness == controlMissing /\ pPc = "idle" /\ reported = "issues"

\* ---------------------------------------------------------------- C24
\* C24: whenever the processing of a mix has failed fatally (processSong
\* ended in its catch), a document snapshot has been written to disk by the
\* time main reports the mix to the operator.
C24_SnapshotBeforeFailureReport ==
    (pRet = "failure" /\ reported = "issues") => snapshotFiles # {}

\* ---------------------------------------------------------------- C25
\* C25: every file that downloadAllTracks has renamed to the target name of
\* track t came from a download that was triggered during an attempt for
\* index t, also when an earlier attempt delivers its file late.
C25_RenamedFileBelongsToItsTrack ==
    \A t \in Tracks :
        (renames[t] > 0 /\ content[t] \in 1 .. Len(dl)) => dl[content[t]].idx = t

\* ---------------------------------------------------------------- C26
\* C26: a finished file that the transfer of the attempt's own download
\* places in the directory after the download control was activated is
\* recognised as the attempt's result however soon it appears; in
\* particular an attempt never times out while that file lies in the
\* directory unnoticed because it is part of filesBefore.
C26_PromptDeliveryIsRecognised ==
    (pc \in {"cleanupList", "cleanupUnlink", "prompt"} /\ Len(dl) > 0)
        => ~(Mp3(Len(dl)) \in filesBefore /\ Mp3(Len(dl)) \in dir)

\* ---------------------------------------------------------------- C27
\* C27: the download control is activated only in the step that follows the
\* isolate step (with its pause) of the same attempt: when the current
\* track has an isolate control, that control was activated in this attempt
\* and the track is the one isolated track at the moment of the activation;
\* for such a track no download is ever requested from the baseline state.
C27_DownloadOnlyAfterIsolate ==
    /\ [](\A d \in 1 .. Len(dl) :
             dl[d].solo = IF hasSolo[dl[d].idx] THEN {dl[d].idx} ELSE {})
    /\ [][Len(dl') > Len(dl)
              => /\ pc = "trigger"
                 /\ cycles[i] = DlClicks(i) + 1
                 /\ hasSolo[i] => (soloButton /\ soloed = {i})]_vars

\* the download control has been activated in the attempt that follows a
\* Retry, for a track with an isolate control
C27_Witness ==
    /\ pc = "snapshot"
    /\ hasSolo[i]
    /\ retries[i] = 1
    /\ Len(dl) = 2
    /\ dl[2].solo = {i}

\* ---------------------------------------------------------------- C28
\* C28: in every attempt that runs to its end the de-isolate activation is
\* made exactly when the isolate activation was made in that attempt, on the
\* same track; a track without an isolate control is still triggered once
\* per attempt and its control is never activated.
C28_DeisolateIffIsolated ==
    /\ [](pc \in {"resolve", "done"} =>
             /\ soloed = {}
             /\ \A t \in Tracks :
                    /\ soloClicks[t] = IF hasSolo[t] THEN 2 * cycles[t] ELSE 0
                    /\ DlClicks(t) = cycles[t])
    /\ [][(pc = "unsolo" /\ pc' # "unsolo") =>
              IF soloClicks[i] = 2 * cycles[i] - 1
              THEN /\ soloed = {i}
                   /\ soloed' = {}
                   /\ soloClicks' = [soloClicks EXCEPT ![i] = @ + 1]
              ELSE UNCHANGED <<soloed, soloClicks>>]_vars

\* the loop has ended after two attempts for a track with an isolate control
\* and one attempt for a track without
C28_Witness ==
    /\ pc = "done"
    /\ hasSolo[0] /\ cycles[0] = 2 /\ soloClicks[0] = 4
    /\ ~hasSolo[1] /\ cycles[1] = 1 /\ DlClicks(1) = 1

\* ---------------------------------------------------------------- C29
\* C29: whenever downloadAllTracks has stopped, by returning or by an error
\* thrown in one of its steps, no track is left isolated.
C29_NoTrackLeftIsolated ==
    pc \in {"done", "error"} => soloed = {}

\* ---------------------------------------------------------------- C30
\* C30: when downloadAllTracks has returned, which is when processSong sets
\* success = true and reports the mix as downloaded, the directory holds the
\* target file of every track of the mix.
C30_SuccessMeansEveryTrackFile ==
    pc = "done" => \A t \in Tracks : dirExists /\ Canon(t) \in dir

C32_DetectedFileIsRenamed ==
    /\ [][(pc = "rename" /\ pc' # "rename") =>
              /\ pc' = "modal"
              /\ Canon(i) \in dir'
              /\ newFilePath \in dir
              /\ newFilePath \notin dir'
              /\ downloadSuccessful'
              /\ outcome'[i] = "completed"]_vars
    /\ [][\A t \in Tracks :
             outcome[t] = "completed" =>
                 /\ outcome'[t] = "completed"
                 /\ cycles'[t] = cycles[t]
                 /\ Len(dl') > Len(dl) => dl'[Len(dl')].idx # t]_vars
    /\ [](\A t \in Tracks :
             outcome[t] = "completed" =>
                 \/ i = t /\ downloadSuccessful /\ pc \in {"modal", "unsolo"}
                 \/ i > t)

\* the file detected for track 1 has been renamed after a retry
C32_Witness ==
    /\ pc = "modal"
    /\ i = 1
    /\ outcome[1] = "completed"
    /\ retries[1] = 1
    /\ Canon(1) \in dir
    /\ newFilePath \notin dir

\* ---------------------------------------------------------------- C33
\* C33: the de-isolate step acts on a control reference obtained after the
\* isolate activation: the handle it clicks has not been clicked since it
\* was resolved, so no reference resolved before the isolate activation is
\* used after it.
C33_DeisolateUsesFreshReference ==
    [][(pc = "unsolo" /\ soloClicks'[i] # soloClicks[i])
           => soloButtonClicks = 0]_vars

\* ---------------------------------------------------------------- C34
\* C34: with finitely many Retry answers downloadAllTracks terminates: it
\* returns or throws; every index it has left was completed, skipped or
\* found to exist, and it returns only when every index has been left.
C34_DownloadAllTracksTerminates ==
    /\ <>(pc \in {"done", "error"})
    /\ [](\A t \in Tracks :
             t < i => outcome[t] \in {"existing", "completed", "skipped"})
    /\ [](pc = "done" => i = MaxTracks)

\* the loop has returned after a Retry on track 0 and a Skip on track 1
C34_Witness ==
    /\ pc = "done"
    /\ retries[0] = 1
    /\ outcome[0] = "completed"
    /\ outcome[1] = "skipped"

\* ---------------------------------------------------------------- C35
\* C35: whatever the 'next' link and the changed-content wait do, also when
\* the link is always present and leads back to pages already shown, the
\* paging loop of fetchPurchasedSongs scrapes at most (number of distinct
\* keys + 2) pages: every pass of the loop scrapes one page, and the pass
\* that reaches the bound ends the loop.
C35_ScrapeVisitsAreBounded ==
    /\ Len(scraped) <= Cardinality(collectedSongUrls) + 2
    /\ pageNumber <= Len(scraped) + 1
    /\ Len(scraped) = Cardinality(collectedSongUrls) + 2
           => sPc \in {"finish", "returned"}

\* the bound is met: one key, three pages scraped, the link led back to the
\* first page
C35_Witness ==
    /\ sPc = "returned"
    /\ Cardinality(collectedSongUrls) = 1
    /\ Len(scraped) = 3
    /\ scraped[3].page = 1

\* ---------------------------------------------------------------- C36
\* position of the last extraction of key k during the scrape
LastExtraction(k) ==
    CHOOSE j \in 1 .. Len(collectedSongs) :
        /\ collectedSongs[j].key = k
        /\ \A m \in j + 1 .. Len(collectedSongs) : collectedSongs[m].key # k

\* C36: when a key was extracted more than once with different display
\* names, the one entry returned for it carries the display name of its
\* last extraction.
C36_LastExtractionWins ==
    sPc = "returned" =>
        \A n \in 1 .. Len(uniqueSongs) :
            uniqueSongs[n] = collectedSongs[LastExtraction(uniqueSongs[n].key)]

\* a key was extracted twice with different names and the scrape has
\* returned
C36_Witness ==
    /\ sPc = "returned"
    /\ \E j, m \in 1 .. Len(collectedSongs) :
           /\ j < m
           /\ collectedSongs[j].key = collectedSongs[m].key
           /\ collectedSongs[j].name # collectedSongs[m].name
           /\ m = LastExtraction(collectedSongs[m].key)

\* ---------------------------------------------------------------- C37
\* C37: when fetchPurchasedSongs fails during 'Refresh song list' (a scrape
\* started from the menu), only that operation fails: main does not enter
\* its catch, the browser stays open and the operator is back at the menu.
C37_FailedRefreshReturnsToMenu ==
    (mErr = "fetch" /\ rounds > 0) =>
        /\ browserOpen
        /\ closes = 0
        /\ mPc \notin {"mainCatch", "closing", "ended"}

\* ---- C38
\* C38: when the first probe of the top-level document finds the root,
\* findMixerContext has returned the top-level handle without any elapsed
\* time: no opener was clicked, page.frames() was never scanned, the page
\* was not scrolled and no snapshot file was written.
C38_RootAtFirstProbeReturnsAtOnce ==
    firstProbe = "found" =>
        /\ fPc = "returned"
        /\ fResult = [handle |-> 0, type |-> "page"]
        /\ fError = "none"
        /\ fElapsed = 0
        /\ openerClicks = 0
        /\ frameScans = 0
        /\ scrolls = 0
        /\ dumped = {}

\* the root was in the top-level document of a page that also has an
\* opener and a nested frame, and the call has returned
C38_Witness ==
    /\ firstProbe = "found"
    /\ fPc = "returned"
    /\ opener \in 1 .. 5
    /\ mixerIframe # 0

\* ---- C39
\* C39: one call of findMixerContext clicks at most one opener, however
\* many candidates match and however many poll rounds follow, and a click
\* is made only in the opener step that precedes the poll loop.
C39_AtMostOneOpenerClick ==
    /\ [](openerClicks <= 1)
    /\ [][openerClicks' # openerClicks => fPc = "opener" /\ fPc' # "opener"]_vars

\* two candidates match, one was clicked, and the poll loop has run to the
\* deadline
C39_Witness ==
    /\ moreOpeners
    /\ opener \in 1 .. 5
    /\ openerClicks = 1
    /\ scrolls = FindTimeoutTicks
    /\ fPc = "failed"

\* ---- C40
\* C40: a frame whose access throws counts as a frame without the root: the
\* call never fails with the frame's error, a round that meets such a frame
\* still returns the root of a frame that can be accessed, and a round that
\* finds nothing goes on to the next round; the call fails in the poll loop
\* only at the deadline.
C40_ThrowingFrameIsSkipped ==
    /\ [](fError # "frameAccess")
    /\ []((fPc = "failed" /\ frameScans > 0) =>
              fError = "mixerNotFound" /\ fElapsed >= FindTimeoutTicks)
    /\ [][(/\ fPc = "poll"
           /\ fElapsed < FindTimeoutTicks
           /\ throwing # {}
           /\ ~RootFoundIn(0)
           /\ \E f \in FrameIds \ throwing : RootFoundIn(f))
          => (/\ fPc' = "returned"
              /\ fResult' = [handle |-> rootHome, type |-> "frame"])]_vars
    /\ [][(/\ fPc = "poll"
           /\ fElapsed < FindTimeoutTicks
           /\ throwing # {}
           /\ frameScans' = frameScans + 1)
          => fPc' \in {"poll", "returned"}]_vars

\* the first frame throws, an earlier round found nothing, and the root of
\* the second frame has been returned
C40_Witness ==
    /\ throwing = {1}
    /\ fPc = "returned"
    /\ fResult = [handle |-> 2, type |-> "frame"]
    /\ frameScans >= 2
    /\ scrolls >= 1

====
